---- MODULE Spec2Model ----
(***************************************************************************)
(* A model of chilly: the scene parser (src/cogs/parser.py), the variant   *)
(* registry (src/cogs/variants.py), the autotile resolver and the render   *)
(* pipeline (src/cogs/render.py).                                          *)
(*                                                                         *)
(* Conventions.  Python strings are TLA+ strings, read with Len, SubSeq    *)
(* and \o.  Python's None is the empty tuple <<>> and an optional value v  *)
(* is held as <<v>> where it sits beside None (a frame pair is <<f0, f1>>).*)
(* A Position holds x and y in pixels, that is in grid units multiplied by *)
(* TILE_SPACING, so that the division by the spacing made by `displace`    *)
(* is exact; z and t are plain indices.                                    *)
(***************************************************************************)
EXTENDS Integers, Sequences, FiniteSets, TLC

VARIABLES
    raw_variant,  \* registry: the text of one variant, as parse_tile splits it
    variant,      \* registry: the Variant handed to VariantRegistry.parse
    raised,       \* registry: the exception parse ended with, or None
    reg_pc,       \* registry: "call" before parse has run, "return" after
    raw_scene,    \* parser: the text handed to ParserCog.parse
    scene,        \* parser: what parse returned (a Scene or an exception)
    parse_pc,     \* parser: "call" before parse has run, "return" after
    bitfields,    \* autotile: the `bitfield` computed for each tile visited
    key_error,    \* autotile: the exception connect_autotiled ended with, or None
    autotile_pc,  \* autotile: "call" before connect_autotiled has run, "return" after
    requests,     \* renderer: the `tile` commands in progress, each with its locals
    files,        \* renderer: the paths that exist in the asset store
    image_cache,  \* renderer: image_cache, the image of each path opened so far
    database,     \* renderer: bot.database, the sprites and the palettes
    cache_dirty,  \* renderer: RendererCog.cache_dirty
    opened,       \* renderer: how many times Image.open has opened each path
    ready,        \* renderer: the requests in the order the event loop resumes them
    color_call,   \* a call of Color(index) and of Color(repr(color)) on its result
    build_call,   \* a call of ParserCog.build_attributes on a tile
    adjacent_call \* a call of ParserCog.is_adjacent on a parsed grid

reg_vars == <<raw_variant, variant, raised, reg_pc>>
parse_vars == <<raw_scene, scene, parse_pc>>
autotile_vars == <<bitfields, key_error, autotile_pc>>
render_vars == <<requests, files, image_cache, database, cache_dirty, opened, ready>>
unit_vars == <<color_call, build_call, adjacent_call>>

None == <<>>

(***************************************************************************)
(* Bounds of the model.                                                    *)
(***************************************************************************)
MaxArgs == 3      \* raw arguments handed to one variant
MaxLen == 4       \* characters of a raw scene
MaxFlags == 2       \* flag tokens before the grid of a raw scene
MaxVariants == 3    \* variants of a tile handed to build_attributes
MaxTokens == 2      \* tokens of a `tiling` variant handed to build_attributes
MaxProbed == 3      \* cells of a grid handed to is_adjacent
MaxCells == 5     \* cells of a scene handed to the autotile resolver
MaxTiles == 3     \* raw tiles of a raw scene with displaced tiles

(***************************************************************************)
(* Strings.                                                                *)
(***************************************************************************)
Ch(s, i) == SubSeq(s, i, i)

Max(a, b) == IF a >= b THEN a ELSE b

SetMax(S) == CHOOSE m \in S : \A n \in S : n <= m

SetMin(S) == CHOOSE m \in S : \A n \in S : m <= n

Contains(s, c) == \E i \in 1..Len(s) : Ch(s, i) = c

StartsWith(s, p) == Len(s) >= Len(p) /\ SubSeq(s, 1, Len(p)) = p

\* The pieces of s between the split points pts, from index start on:
\* what str.split and re.split return for one-character separators.
RECURSIVE SplitFrom(_, _, _)
SplitFrom(s, pts, start) ==
    LET rest == {p \in pts : p >= start}
    IN  IF rest = {} THEN <<SubSeq(s, start, Len(s))>>
        ELSE LET p == SetMin(rest)
             IN  <<SubSeq(s, start, p - 1)>> \o SplitFrom(s, pts, p + 1)

\* str.split(sep) for a one-character sep.
StrSplit(s, sep) == SplitFrom(s, {i \in 1..Len(s) : Ch(s, i) = sep}, 1)

\* str.split(sep, 1).
StrSplitOnce(s, sep) ==
    LET pts == {i \in 1..Len(s) : Ch(s, i) = sep}
    IN  IF pts = {} THEN <<s>> ELSE SplitFrom(s, {SetMin(pts)}, 1)

RECURSIVE Join(_, _)
Join(parts, sep) ==
    IF Len(parts) = 0 THEN ""
    ELSE IF Len(parts) = 1 THEN parts[1]
    ELSE parts[1] \o sep \o Join(Tail(parts), sep)

DigitVal ==
    [c \in {"0", "1", "2", "3", "4", "5", "6", "7", "8", "9"} |->
        CASE c = "0" -> 0 [] c = "1" -> 1 [] c = "2" -> 2 [] c = "3" -> 3
          [] c = "4" -> 4 [] c = "5" -> 5 [] c = "6" -> 6 [] c = "7" -> 7
          [] c = "8" -> 8 [] c = "9" -> 9]

HexVal ==
    [c \in {"a", "b", "c", "d", "e", "f", "A", "B", "C", "D", "E", "F"} |->
        CASE c \in {"a", "A"} -> 10 [] c \in {"b", "B"} -> 11
          [] c \in {"c", "C"} -> 12 [] c \in {"d", "D"} -> 13
          [] c \in {"e", "E"} -> 14 [] c \in {"f", "F"} -> 15]

IsDigit(c, base) ==
    \/ c \in DOMAIN DigitVal
    \/ base = 16 /\ c \in DOMAIN HexVal

DigitOf(c) == IF c \in DOMAIN DigitVal THEN DigitVal[c] ELSE HexVal[c]

RECURSIVE Digits(_, _)
Digits(s, base) ==
    IF Len(s) = 0 THEN 0
    ELSE Digits(SubSeq(s, 1, Len(s) - 1), base) * base + DigitOf(Ch(s, Len(s)))

\* int(s, base): an optional sign and at least one digit; anything else is a
\* ValueError, rendered as ok = FALSE.
ParseInt(s, base) ==
    LET signed == Len(s) > 0 /\ Ch(s, 1) \in {"+", "-"}
        body == IF signed THEN SubSeq(s, 2, Len(s)) ELSE s
        good == Len(body) > 0 /\ \A i \in 1..Len(body) : IsDigit(Ch(body, i), base)
    IN  IF ~good THEN [ok |-> FALSE, exc |-> "ValueError", val |-> 0]
        ELSE [ok |-> TRUE, exc |-> "",
              val |-> IF signed /\ Ch(s, 1) = "-" THEN 0 - Digits(body, base)
                      ELSE Digits(body, base)]

(***************************************************************************)
(* Exceptions.  kind is the Python class, what tells the messages of one   *)
(* class apart, info holds the values the exception was built from.        *)
(***************************************************************************)
NoError == [kind |-> "None", what |-> "", info |-> <<>>]

CustomError(what, info) == [kind |-> "CustomError", what |-> what, info |-> info]

ArgumentError(ty, arg, var) ==
    [kind |-> "ArgumentError", what |-> "", info |-> <<ty, arg, var>>]

(***************************************************************************)
(* Color (src/classes.py).                                                 *)
(***************************************************************************)
\* The two names the source itself relies on: Color("white") is the default
\* of TileData.color and Color("rosy") the default of the tile `2`.
COLOR_NAMES ==
    [n \in {"white", "rosy"} |-> IF n = "white" THEN <<0, 3>> ELSE <<4, 2>>]

ColorFailed(index) == CustomError("Failed to parse as a color", <<index>>)

\* Color.__init__: [ok, val, exc]; val is [r, g, b] with b None for a
\* palette index.
ColorInit(index) ==
    LET bad == [ok |-> FALSE, exc |-> ColorFailed(index),
                val |-> [r |-> 0, g |-> 0, b |-> None]]
    IN  IF Contains(index, ",")
        THEN LET xy == StrSplitOnce(index, ",")
                 x == ParseInt(xy[1], 10)
                 y == ParseInt(xy[2], 10)
             IN  IF x.ok /\ y.ok
                 THEN [ok |-> TRUE, exc |-> NoError,
                       val |-> [r |-> x.val, g |-> y.val, b |-> None]]
                 ELSE bad
        ELSE IF index \in DOMAIN COLOR_NAMES
        THEN [ok |-> TRUE, exc |-> NoError,
              val |-> [r |-> COLOR_NAMES[index][1], g |-> COLOR_NAMES[index][2],
                       b |-> None]]
        ELSE IF StartsWith(index, "#")
        THEN LET hex_color == SubSeq(index, 2, Len(index))
                 rgb == ParseInt(hex_color, 16)
             IN  IF Len(hex_color) # 6 \/ ~rgb.ok THEN bad
                 ELSE [ok |-> TRUE, exc |-> NoError,
                       val |-> [r |-> (rgb.val \div 65536) % 256,
                                g |-> (rgb.val \div 256) % 256,
                                b |-> <<rgb.val % 256>>]]
        ELSE bad

\* Color.from_tuple.
ColorFromTuple(rgb) ==
    [r |-> rgb[1], g |-> rgb[2], b |-> IF Len(rgb) > 2 THEN <<rgb[3]>> ELSE None]

(***************************************************************************)
(* The variant registry (src/cogs/variants.py).                            *)
(***************************************************************************)
VariantData(names, arguments, defaults) ==
    [names |-> names, arguments |-> arguments, defaults |-> defaults]

\* reg.variants as setup builds it.  A type is named by its Python name and
\* the Ellipsis by "..."; a default d is held as <<d>> and None as <<>>.
Variants ==
    { VariantData(<<"meta", "m">>, <<"int", "str", "int">>,
                  <<<<1>>, <<"full">>, <<1>>>>),
      VariantData(<<"left", "l">>, <<>>, <<>>),
      VariantData(<<"up", "u">>, <<>>, <<>>),
      VariantData(<<"right", "r">>, <<>>, <<>>),
      VariantData(<<"down", "d">>, <<>>, <<>>),
      VariantData(<<"sleep", "s">>, <<>>, <<>>),
      VariantData(<<"displace", "disp">>, <<"int", "int">>, <<None, None>>),
      VariantData(<<"color", "c">>, <<"Color">>, <<None>>),
      VariantData(<<"tiling", "t">>, <<"str", "...">>, <<None, None>>) }

NamesOf(data) == {data.names[i] : i \in 1..Len(data.names)}

\* The signatures the loop of parse can stop at for this name: the for loop
\* runs over a set, so any signature holding the name can come first.
Matching(name) == {data \in Variants : name \in NamesOf(data)}

\* Variant.__repr__.
VariantRepr(v) ==
    ":" \o v.name \o
    (IF Len(v.arguments) > 0 THEN "/" \o Join(v.arguments, "/") ELSE "")

\* repr(self) of the registry, an object with no __repr__ of its own.
RegistryRepr == "<src.cogs.variants.VariantRegistry object>"

\* int(string) as parse_type sees it: a ValueError is exc.kind = "ValueError".
IntType(string, p) ==
    [ok |-> p.ok, val |-> p.val,
     exc |-> IF p.ok THEN NoError
             ELSE [kind |-> "ValueError", what |-> "", info |-> <<string>>]]

\* VariantRegistry.parse_type: ty(string).  Color raises its own CustomError.
ParseType(ty, string) ==
    CASE ty = "int" -> IntType(string, ParseInt(string, 10))
      [] ty = "str" -> [ok |-> TRUE, val |-> string, exc |-> NoError]
      [] ty = "Color" -> ColorInit(string)

\* What the except clause of parse makes of an exception of parse_type.
Reraise(exc, ty, arg) ==
    IF exc.kind = "ValueError" THEN ArgumentError(ty, arg, RegistryRepr) ELSE exc

\* The variadic branch: every raw argument from index i on, parsed as last_ty
\* and appended.  VarArg is one turn of its loop, p the parsed argument.
RECURSIVE VarArgs(_, _, _, _)
VarArg(last_ty, raw, i, args, p) ==
    IF ~p.ok THEN [args |-> args, raised |-> Reraise(p.exc, last_ty, raw[i])]
    ELSE VarArgs(last_ty, raw, i + 1, Append(args, <<p.val>>))

VarArgs(last_ty, raw, i, args) ==
    IF i > Len(raw) THEN [args |-> args, raised |-> NoError]
    ELSE VarArg(last_ty, raw, i, args, ParseType(last_ty, raw[i]))

\* The loop over zip(this_data.arguments, variant.arguments), from index i
\* on.  ParseArg is one turn of it, p the parsed argument.
RECURSIVE ParseArgs(_, _, _, _, _)
ParseArg(types, raw, i, args, p) ==
    IF ~p.ok THEN [args |-> args, raised |-> Reraise(p.exc, types[i], raw[i])]
    ELSE ParseArgs(types, raw, i + 1, [args EXCEPT ![i] = <<p.val>>], types[i])

ParseArgs(types, raw, i, args, last_ty) ==
    IF i > Len(types) \/ i > Len(raw) THEN [args |-> args, raised |-> NoError]
    ELSE IF types[i] = "..."
    THEN VarArgs(last_ty, raw, i, SubSeq(args, 1, Len(args) - 1))
    ELSE ParseArg(types, raw, i, args, ParseType(types[i], raw[i]))

\* The message of the second loop of parse: i arguments were provided, the
\* variant var requires at least `required`.
NotEnoughArguments(i, var, required) ==
    CustomError("Only i arguments were provided", <<i, var, required>>)

UnknownVariant(name) == CustomError("Couldn't find a variant", <<name>>)

\* The second loop of parse and its return, on what the first loop left:
\* named is the variant under the name parse gave it, got the arguments.
CheckArguments(v, named, got) ==
    LET args == got.args
        missing == {i \in 1..Len(args) : args[i] = None}
    IN  IF got.raised.kind # "None" THEN [variant |-> named, raised |-> got.raised]
        ELSE IF missing # {}
        THEN [variant |-> named,
              raised |-> NotEnoughArguments(SetMin(missing) - 1, VariantRepr(named),
                                            Len(v.arguments))]
        ELSE [variant |-> [named EXCEPT !.arguments = [i \in 1..Len(args) |-> args[i][1]]],
              raised |-> NoError]

\* ParseWith without `variant.name = data.names[0]`: the alias is kept.
ParseWithAliasKept(v, this_data) ==
    CheckArguments(v, v,
        ParseArgs(this_data.arguments, v.arguments, 1, this_data.defaults, None))

\* VariantRegistry.parse once the for loop has stopped at this_data:
\* [variant, raised], the variant as parse leaves it.
ParseWith(v, this_data) ==
    CheckArguments(v, [v EXCEPT !.name = this_data.names[1]],
        ParseArgs(this_data.arguments, v.arguments, 1, this_data.defaults, None))

\* VariantRegistry.parse for a name no signature holds: the else of the for.
ParseUnknown(v) == [variant |-> v, raised |-> UnknownVariant(v.name)]

(***************************************************************************)
(* The registry as a state machine: a caller builds a Variant from a name  *)
(* and raw arguments and hands it to parse.                                *)
(***************************************************************************)
Aliases == UNION {NamesOf(data) : data \in Variants}

VariantNames == Aliases \cup {"", "x"}

RawArguments == {"4", "u", "ul", "1,2", "1,u", "#00FF7f"}

RECURSIVE SeqsUpTo(_, _)
SeqsUpTo(S, n) ==
    IF n = 0 THEN {<<>>}
    ELSE LET shorter == SeqsUpTo(S, n - 1)
         IN  shorter \cup {Append(q, e) : q \in {p \in shorter : Len(p) = n - 1}, e \in S}

Variant(name, arguments) == [name |-> name, arguments |-> arguments]

\* The texts of one variant: a name and up to MaxArgs arguments, joined by "/".
RawVariants ==
    {Join(<<n>> \o a, "/") : n \in VariantNames, a \in SeqsUpTo(RawArguments, MaxArgs)}

\* parse_tile: var_name, *arguments = raw_variant.split("/").
VariantOf(raw) == Variant(Head(StrSplit(raw, "/")), Tail(StrSplit(raw, "/")))

RegInit ==
    /\ raw_variant \in RawVariants
    /\ variant = VariantOf(raw_variant)
    /\ raised = NoError
    /\ reg_pc = "call"

RegIdle ==
    /\ raw_variant = ""
    /\ variant = VariantOf("")
    /\ raised = NoError
    /\ reg_pc = "idle"

RegistryParseFound ==
    /\ reg_pc = "call"
    /\ \E this_data \in Matching(variant.name) :
          LET res == ParseWith(variant, this_data)
          IN  /\ variant' = res.variant
              /\ raised' = res.raised
    /\ reg_pc' = "return"
    /\ UNCHANGED <<raw_variant, parse_vars, autotile_vars, render_vars, unit_vars>>

RegistryParseNotFound ==
    /\ reg_pc = "call"
    /\ Matching(variant.name) = {}
    /\ variant' = ParseUnknown(variant).variant
    /\ raised' = ParseUnknown(variant).raised
    /\ reg_pc' = "return"
    /\ UNCHANGED <<raw_variant, parse_vars, autotile_vars, render_vars, unit_vars>>

\* bot.variant_registry.parse(variant) as parse_tile calls it.  No alias
\* belongs to two signatures (C7), so the loop has one signature to stop at.
RegistryParse(v) ==
    IF Matching(v.name) = {} THEN ParseUnknown(v)
    ELSE ParseWith(v, CHOOSE this_data \in Matching(v.name) : TRUE)

(***************************************************************************)
(* The scene model (src/classes.py).                                       *)
(***************************************************************************)
TILE_SPACING == 24

\* Position with the first two coordinates taken in the wrong order.
PositionTransposed(x, y, z, t) ==
    [x |-> y * TILE_SPACING, y |-> x * TILE_SPACING, z |-> z, t |-> t]

\* Position(float(x), float(y), float(z), float(t)) of the grid cell (x, y).
Position(x, y, z, t) == [x |-> x * TILE_SPACING, y |-> y * TILE_SPACING, z |-> z, t |-> t]

TileData(color, sprite, world, tiling) ==
    [color |-> color, sprite |-> sprite, world |-> world, tiling |-> tiling]

\* bot.data.database.sprites: an autotiled tile a and a plain tile b, both
\* with the default colour Color("white").
DatabaseSprites ==
    [n \in {"a", "b"} |->
        TileData(ColorInit("white").val, n, "vanilla",
                 IF n = "a" THEN "AUTOTILED" ELSE "NONE")]

TileAttributes == [frame |-> None, color |-> None, palette |-> None]

\* Tile(name, variants): data is None or <<key>>, the entry of the sprite
\* database the tile refers to.
Tile(name, variants) ==
    [name |-> name, variants |-> variants, data |-> None, attrs |-> TileAttributes,
     sprite |-> None]

\* TileGrid(): tiles is the dict, a sequence of entries in insertion order.
TileGrid == [tiles |-> <<>>, width |-> 0, height |-> 0, length |-> 1,
             spacing |-> TILE_SPACING]

\* dict.__setitem__: an existing key keeps its place and takes the new value.
DictSet(items, key, value) ==
    IF \E i \in 1..Len(items) : items[i].key = key
    THEN [i \in 1..Len(items) |->
            IF items[i].key = key THEN [key |-> key, value |-> value] ELSE items[i]]
    ELSE Append(items, [key |-> key, value |-> value])

DictKeys(items) == {items[i].key : i \in 1..Len(items)}

DictGet(items, key) == (CHOOSE e \in {items[i] : i \in 1..Len(items)} : e.key = key).value

\* TileGrid.__setitem__.
GridSet(grid, pos, tile) == [grid EXCEPT !.tiles = DictSet(@, pos, tile)]

Scene(tiles, flags) ==
    [kind |-> "Scene", tiles |-> tiles, flags |-> flags, tile_spacing |-> 24,
     connect_borders |-> FALSE]

(***************************************************************************)
(* The tile-attribute builder (ParserCog.build_attributes).                *)
(***************************************************************************)
Bit(b, k) == (b \div (2 ^ k)) % 2

\* The 47 neighbour bitfields in which a diagonal bit is set only with both
\* of its cardinal bits.
ValidBitfields ==
    {b \in 0..255 :
        /\ Bit(b, 3) = 1 => Bit(b, 6) = 1 /\ Bit(b, 7) = 1
        /\ Bit(b, 2) = 1 => Bit(b, 6) = 1 /\ Bit(b, 5) = 1
        /\ Bit(b, 1) = 1 => Bit(b, 4) = 1 /\ Bit(b, 5) = 1
        /\ Bit(b, 0) = 1 => Bit(b, 4) = 1 /\ Bit(b, 7) = 1}

\* src.constants.TILING_VARIANTS: the frame of each valid bitfield.  The
\* sixteen cardinal-only bitfields take the frames 0..15, the others follow.
TILING_VARIANTS ==
    [b \in ValidBitfields |->
        IF b % 16 = 0 THEN Bit(b, 7) + 2 * Bit(b, 6) + 4 * Bit(b, 5) + 8 * Bit(b, 4)
        ELSE 16 + Cardinality({c \in ValidBitfields : c % 16 # 0 /\ c < b})]

\* What TILING_VARIANTS.get(bitfield) gives for a missing key, in the place
\* of a frame number.
NoFrame == -1

TilingGet(bitfield) ==
    IF bitfield \in DOMAIN TILING_VARIANTS THEN TILING_VARIANTS[bitfield] ELSE NoFrame

In(arg, names) == IF arg \in names THEN 1 ELSE 0

\* a | b on bytes.
BitOr(a, b) ==
    LET Weight(k) == IF Bit(a, k) = 1 \/ Bit(b, k) = 1 THEN 2 ^ k ELSE 0
    IN  Weight(0) + Weight(1) + Weight(2) + Weight(3)
        + Weight(4) + Weight(5) + Weight(6) + Weight(7)

\* bitfield & 0b11110000.
CardinalBits(bitfield) == bitfield - (bitfield % 16)

\* The bits of one token when a diagonal token sets its own bit alone.
TilingBitsDiagonalAlone(arg) ==
    In(arg, {"r"}) * 128 + In(arg, {"u"}) * 64 + In(arg, {"l"}) * 32 + In(arg, {"d"}) * 16
    + In(arg, {"ur"}) * 8 + In(arg, {"ul"}) * 4 + In(arg, {"dl"}) * 2 + In(arg, {"dr"})

\* The bits one token of the `tiling` variant sets.
TilingBits(arg) ==
    In(arg, {"r", "dr", "ur"}) * 128 + In(arg, {"u", "ul", "ur"}) * 64
    + In(arg, {"l", "ul", "dl"}) * 32 + In(arg, {"d", "dl", "dr"}) * 16
    + In(arg, {"ur"}) * 8 + In(arg, {"ul"}) * 4 + In(arg, {"dl"}) * 2 + In(arg, {"dr"})

RECURSIVE TilingBitfield(_, _)
TilingBitfield(arguments, bitfield) ==
    IF Len(arguments) = 0 THEN bitfield
    ELSE TilingBitfield(Tail(arguments), BitOr(bitfield, TilingBits(Head(arguments))))

TypeError(what) == [kind |-> "TypeError", what |-> what, info |-> <<>>]

\* The frame pair the `tiling` variant sets for its bitfield.
TilingFrame(bitfield) == <<TilingGet(bitfield), TILING_VARIANTS[CardinalBits(bitfield)]>>

\* sleep_frame one frame after the primary frame, the wrong way round.
SleepFrameForward(frame) == (frame + 1) % 32

\* sleep_frame, of the primary frame attrs.frame[0].
SleepFrame(frame) == (frame - 1) % 32

\* The body of the loop of build_attributes for one variant, on the state
\* [attrs, x, y, variants, raised] of the loop.
ApplyVariant(st, v) ==
    CASE v.name = "right" -> [st EXCEPT !.attrs.frame = <<0, 0>>]
      [] v.name = "up" -> [st EXCEPT !.attrs.frame = <<8, 8>>]
      [] v.name = "left" -> [st EXCEPT !.attrs.frame = <<16, 16>>]
      [] v.name = "down" -> [st EXCEPT !.attrs.frame = <<24, 24>>]
      [] v.name = "sleep" ->
            IF st.attrs.frame = None
            THEN [st EXCEPT !.raised = TypeError("'NoneType' object is not subscriptable")]
            ELSE IF st.attrs.frame[1] = NoFrame
            THEN [st EXCEPT !.raised = TypeError("unsupported operand type(s) for -")]
            ELSE [st EXCEPT !.attrs.frame = <<SleepFrame(st.attrs.frame[1]),
                                              SleepFrame(st.attrs.frame[1])>>]
      [] v.name = "displace" ->
            [st EXCEPT !.x = @ + v.arguments[1], !.y = @ + v.arguments[2]]
      [] v.name = "tiling" ->
            [st EXCEPT !.attrs.frame = TilingFrame(TilingBitfield(v.arguments, 0)),
                       !.bitfields = Append(@, TilingBitfield(v.arguments, 0))]
      [] v.name = "color" ->
            [st EXCEPT !.attrs.color = ColorFromTuple(<<255, 255, 255>>),
                       !.variants = Append(@, v)]
      [] OTHER -> [st EXCEPT !.variants = Append(@, v)]

RECURSIVE ApplyVariants(_, _, _)
ApplyVariants(variants, i, st) ==
    IF i > Len(variants) \/ st.raised.kind # "None" THEN st
    ELSE ApplyVariants(variants, i + 1, ApplyVariant(st, variants[i]))

\* The end of build_attributes without `tile.variants = variants`.
BuiltKeepingVariants(tile, pos, st) ==
    [tile |-> [tile EXCEPT !.attrs = st.attrs],
     pos |-> [pos EXCEPT !.x = st.x, !.y = st.y],
     raised |-> st.raised]

\* The end of build_attributes, on the state st the loop ended in.  attrs
\* is tile.attrs itself, so what the loop wrote to it stays when the loop
\* raised; the list of variants is assigned on the normal return only.
Built(tile, pos, st) ==
    [tile |-> [tile EXCEPT !.attrs = st.attrs,
                           !.variants = IF st.raised.kind = "None" THEN st.variants ELSE @],
     pos |-> [pos EXCEPT !.x = st.x, !.y = st.y],
     raised |-> st.raised]

\* The loop of build_attributes over the variants of the tile; bitfields
\* keeps the values the local bitfield had at line 135, in order.
BuildLoop(tile, pos) ==
    ApplyVariants(tile.variants, 1,
        [attrs |-> tile.attrs, x |-> pos.x, y |-> pos.y, variants |-> <<>>,
         bitfields |-> <<>>, raised |-> NoError])

\* ParserCog.build_attributes: [tile, pos, raised].
BuildAttributes(grid, tile, pos) == Built(tile, pos, BuildLoop(tile, pos))

(***************************************************************************)
(* The scene parser (ParserCog.parse, ParserCog.parse_tile).               *)
(***************************************************************************)
\* parse_tile from line 86 on: parsed holds, for each raw variant, what the
\* registry made of it.
BuildTile(sprites, grid, tile_name, parsed, pos) ==
    LET failed == {i \in 1..Len(parsed) : parsed[i].raised.kind # "None"}
        tile == [Tile(tile_name, [i \in 1..Len(parsed) |-> parsed[i].variant]) EXCEPT
                    !.data = IF tile_name \in DOMAIN sprites THEN <<tile_name>> ELSE None]
    IN  IF failed # {}
        THEN [tile |-> tile, pos |-> pos, raised |-> parsed[SetMin(failed)].raised]
        ELSE BuildAttributes(grid, tile, pos)

\* The loop of parse_tile over the raw variants.
ParseVariants(raw_variants) ==
    [i \in 1..Len(raw_variants) |-> RegistryParse(VariantOf(raw_variants[i]))]

\* ParserCog.parse_tile: [tile, pos, raised].
ParseTile(sprites, grid, raw_tile, position) ==
    BuildTile(sprites, grid, Head(StrSplit(raw_tile, ":")),
              ParseVariants(Tail(StrSplit(raw_tile, ":"))),
              Position(position[1], position[2], position[3], position[4]))

\* (?<!(?<!\\)\\) before index i of s: the character before i is not a
\* backslash that is itself not preceded by a backslash.
NotAfterLoneBackslash(s, i) ==
    ~(/\ i > 1
      /\ Ch(s, i - 1) = "\\"
      /\ ~(i > 2 /\ Ch(s, i - 2) = "\\"))

\* re.split(PATTERN, s) for SPACE_PATTERN, STACK_PATTERN and STEP_PATTERN:
\* sep is " ", "&" or ">".
ReSplit(s, sep) ==
    SplitFrom(s, {i \in 1..Len(s) : Ch(s, i) = sep /\ NotAfterLoneBackslash(s, i)}, 1)

\* \w and \s, over ASCII.
WordChars ==
    {"a", "b", "c", "d", "e", "f", "g", "h", "i", "j", "k", "l", "m", "n", "o", "p",
     "q", "r", "s", "t", "u", "v", "w", "x", "y", "z", "A", "B", "C", "D", "E", "F",
     "G", "H", "I", "J", "K", "L", "M", "N", "O", "P", "Q", "R", "S", "T", "U", "V",
     "W", "X", "Y", "Z", "0", "1", "2", "3", "4", "5", "6", "7", "8", "9", "_"}

SpaceChars == {" ", "\n", "\t", "\r"}

\* The length of the longest run of characters of s from index i on that
\* are in chars (within), or that are not (~within).
RunLength(s, i, chars, within) ==
    LET stops == {j \in i..Len(s) : (Ch(s, j) \in chars) # within}
    IN  IF stops = {} THEN Len(s) - i + 1 ELSE SetMin(stops) - i

\* re.match(FLAG_PATTERN, s), --(?P<key>\w+)(?:=(?P<value>\S+))? ?, as
\* [matched, key, bare, value, end]: bare tells that the value group took no
\* part, end is match.end().
FlagMatch(s) ==
    LET k == RunLength(s, 3, WordChars, TRUE)
        p == 3 + k
        v == RunLength(s, p + 1, SpaceChars, FALSE)
        has_value == p <= Len(s) /\ Ch(s, p) = "=" /\ v >= 1
        q == IF has_value THEN p + 1 + v ELSE p
    IN  IF ~StartsWith(s, "--") \/ k = 0
        THEN [matched |-> FALSE, key |-> "", bare |-> TRUE, value |-> "", end |-> 0]
        ELSE [matched |-> TRUE, key |-> SubSeq(s, 3, p - 1), bare |-> ~has_value,
              value |-> IF has_value THEN SubSeq(s, p + 1, p + v) ELSE "",
              end |-> IF q <= Len(s) /\ Ch(s, q) = " " THEN q ELSE q - 1]

\* The flag loop of parse: [flags, rest].  A flag is [bare, value]: the
\* Python value is True when bare, else the string value.  TakeFlag is one
\* turn of the loop, on its match.
RECURSIVE ParseFlags(_, _)
TakeFlag(s, flags, match) ==
    IF ~match.matched THEN [flags |-> flags, rest |-> s]
    ELSE ParseFlags(SubSeq(s, match.end + 1, Len(s)),
                    DictSet(flags, match.key, [bare |-> match.bare, value |-> match.value]))

ParseFlags(s, flags) == TakeFlag(s, flags, FlagMatch(s))

RECURSIVE Concat(_)
Concat(seqs) == IF Len(seqs) = 0 THEN <<>> ELSE Head(seqs) \o Concat(Tail(seqs))

\* The four nested enumerate loops of parse, flattened in the order the
\* loops run: one entry per raw tile with its indices.
StepsOf(cell, x, y, z) ==
    LET steps == ReSplit(cell, ">")
    IN  [i \in 1..Len(steps) |->
            [x |-> x, y |-> y, z |-> z, t |-> i - 1, raw_tile |-> steps[i]]]

CellsOf(stack, x, y) ==
    LET cells == ReSplit(stack, "&")
    IN  Concat([i \in 1..Len(cells) |-> StepsOf(cells[i], x, y, i - 1)])

StacksOf(row, y) ==
    LET stacks == ReSplit(row, " ")
    IN  Concat([i \in 1..Len(stacks) |-> CellsOf(stacks[i], i - 1, y)])

RawTiles(text) ==
    LET rows == StrSplit(text, "\n")
    IN  Concat([i \in 1..Len(rows) |-> StacksOf(rows[i], i - 1)])

\* A '.' step that left last_tile alone: the step after it would still find
\* the tile before it.
LastAfterDotKept(last_tile) == last_tile

\* `last_tile = None` at a '.' step (line 61).
LastAfterDot(last_tile) == None

\* The tile the grid takes: an empty name is the name of the last tile.
Named(tile, last_tile) ==
    IF tile.name = "" THEN [tile EXCEPT !.name = last_tile.name] ELSE tile

\* The body of the innermost loop of parse for the raw tiles from index i
\* on: [tiles, raised].  StoreTile is lines 59-69 of one turn, on what
\* parse_tile returned.
RECURSIVE ParseTiles(_, _, _, _, _)
StoreTile(sprites, raw_tiles, i, grid, last_tile, parsed) ==
    IF parsed.raised.kind # "None" THEN [tiles |-> grid, raised |-> parsed.raised]
    ELSE IF parsed.tile.name = "."
    THEN ParseTiles(sprites, raw_tiles, i + 1, grid, LastAfterDot(last_tile))
    ELSE IF parsed.tile.name = "" /\ last_tile = None
    THEN ParseTiles(sprites, raw_tiles, i + 1, grid, last_tile)
    ELSE ParseTiles(sprites, raw_tiles, i + 1,
                    GridSet(grid, parsed.pos, Named(parsed.tile, last_tile)),
                    Named(parsed.tile, last_tile))

\* Lines 46, 48 and 55: the grid grows to hold the indices of the raw tile.
Grown(tiles, raw) ==
    [tiles EXCEPT !.height = Max(@, raw.y), !.width = Max(@, raw.x),
                  !.length = Max(@, raw.t + 1)]

VisitTile(sprites, raw_tiles, i, grid, last_tile) ==
    StoreTile(sprites, raw_tiles, i, grid, last_tile,
              ParseTile(sprites, grid, raw_tiles[i].raw_tile,
                        <<raw_tiles[i].x, raw_tiles[i].y, raw_tiles[i].z, raw_tiles[i].t>>))

ParseTiles(sprites, raw_tiles, i, tiles, last_tile) ==
    IF i > Len(raw_tiles) THEN [tiles |-> tiles, raised |-> NoError]
    ELSE VisitTile(sprites, raw_tiles, i, Grown(tiles, raw_tiles[i]),
                   IF raw_tiles[i].t = 0 THEN None ELSE last_tile)

\* The return of parse, on the flags and what the loops ended with.
Parsing(flags, got) ==
    IF got.raised.kind # "None" THEN got.raised ELSE Scene(got.tiles, flags)

ParseGrid(sprites, flagged) ==
    Parsing(flagged.flags, ParseTiles(sprites, RawTiles(flagged.rest), 1, TileGrid, None))

\* ParserCog.parse: the Scene, or the exception it ends with.
Parse(sprites, text) == ParseGrid(sprites, ParseFlags(text, <<>>))

(***************************************************************************)
(* The parser as a state machine: a caller hands a text to parse.          *)
(***************************************************************************)
SceneChars == {"a", "b", ".", " ", "\n", "\\", "&", ">"}

RECURSIVE StringsUpTo(_, _)
StringsUpTo(chars, n) ==
    IF n = 0 THEN {""}
    ELSE LET shorter == StringsUpTo(chars, n - 1)
         IN  shorter \cup {s \o c : s \in {p \in shorter : Len(p) = n - 1}, c \in chars}

ParseInit ==
    /\ raw_scene \in StringsUpTo(SceneChars, MaxLen)
    /\ scene = NoError
    /\ parse_pc = "call"

ParserParse ==
    /\ parse_pc = "call"
    /\ scene' = Parse(DatabaseSprites, raw_scene)
    /\ parse_pc' = "return"
    /\ UNCHANGED <<raw_scene, reg_vars, autotile_vars, render_vars, unit_vars>>

ParseIdle ==
    /\ raw_scene = ""
    /\ scene = NoError
    /\ parse_pc = "idle"


(***************************************************************************)
(* The autotile resolver (ParserCog.is_adjacent, connect_autotiled).       *)
(***************************************************************************)
KeyError(key) == [kind |-> "KeyError", what |-> "", info |-> <<key>>]

\* ParserCog.is_adjacent: [val, raised].  grid[pos] raises KeyError when the
\* dict holds no tile at pos.
IsAdjacent(pos, tile, grid, tile_borders) ==
    LET joining_tiles == {tile.name, "level", "border"}
    IN  IF \/ pos.x < 0
           \/ pos.y < 0
           \/ pos.x >= grid.width * TILE_SPACING
           \/ pos.y >= grid.width * TILE_SPACING
        THEN [val |-> tile_borders, raised |-> NoError]
        ELSE IF pos \notin DictKeys(grid.tiles)
        THEN [val |-> FALSE, raised |-> KeyError(pos)]
        ELSE [val |-> DictGet(grid.tiles, pos).name \in joining_tiles, raised |-> NoError]

\* The eight neighbour positions of pos, in the order of the bits 7..0:
\* r, u, l, d, ur, ul, dl, dr.
Neighbours(pos) ==
    LET r == [pos EXCEPT !.x = @ + TILE_SPACING]
        u == [pos EXCEPT !.y = @ - TILE_SPACING]
        l == [pos EXCEPT !.x = @ - TILE_SPACING]
        d == [pos EXCEPT !.y = @ + TILE_SPACING]
    IN  <<r, u, l, d,
          [u EXCEPT !.x = @ + TILE_SPACING], [l EXCEPT !.y = @ - TILE_SPACING],
          [d EXCEPT !.x = @ - TILE_SPACING], [r EXCEPT !.y = @ + TILE_SPACING]>>

\* Lines 181-184: the four cardinal lookups, in the order r, u, l, d.
Cardinals(sc, tile, at) ==
    [k \in 1..4 |-> IsAdjacent(at[k], tile, sc.tiles, sc.connect_borders)]

\* Lines 185-188: `u and r and is_adjacent(ur, ...)` and its like.  A
\* diagonal is looked up only when both of its cardinals joined.
Diagonals(sc, tile, at, cardinal) ==
    LET Both(a, b) == cardinal[a].val /\ cardinal[b].val
        first == [k \in 5..8 |-> IF k \in {5, 6} THEN 2 ELSE 4]
        second == [k \in 5..8 |-> IF k \in {5, 8} THEN 1 ELSE 3]
    IN  [k \in 1..8 |->
            IF k <= 4 THEN cardinal[k]
            ELSE IF Both(first[k], second[k])
            THEN IsAdjacent(at[k], tile, sc.tiles, sc.connect_borders)
            ELSE [val |-> FALSE, raised |-> NoError]]

\* Lines 189-198, on the eight lookups: [bitfield, raised].  The first
\* lookup that raised ends the call.
Bitfield(checks) ==
    LET failed == {k \in 1..8 : checks[k].raised.kind # "None"}
        Shifted(k) == IF checks[k].val THEN 2 ^ (8 - k) ELSE 0
    IN  IF failed # {}
        THEN [bitfield |-> 0, raised |-> checks[SetMin(failed)].raised]
        ELSE [bitfield |-> Shifted(1) + Shifted(2) + Shifted(3) + Shifted(4)
                           + Shifted(5) + Shifted(6) + Shifted(7) + Shifted(8),
              raised |-> NoError]

\* The body of the loop of connect_autotiled for an autotiled tile without a
\* frame: [bitfield, raised].
ConnectTile(sc, pos, tile) ==
    Bitfield(Diagonals(sc, tile, Neighbours(pos), Cardinals(sc, tile, Neighbours(pos))))

\* Lines 200-204: the frame pair of a bitfield.
AutotileFrame(bitfield) ==
    <<IF bitfield \in DOMAIN TILING_VARIANTS THEN TILING_VARIANTS[bitfield]
      ELSE TILING_VARIANTS[CardinalBits(bitfield)],
      TILING_VARIANTS[CardinalBits(bitfield)]>>

\* The loop of connect_autotiled from the i-th entry of the grid on:
\* [scene, bitfields, raised].  Connect is the end of one turn, on what
\* the lookups gave.
RECURSIVE ConnectTiles(_, _, _, _)
Connect(sprites, sc, i, computed, connected) ==
    IF connected.raised.kind # "None"
    THEN [scene |-> sc, bitfields |-> computed, raised |-> connected.raised]
    ELSE ConnectTiles(sprites,
             [sc EXCEPT !.tiles.tiles[i].value.attrs.frame = AutotileFrame(connected.bitfield)],
             i + 1,
             Append(computed, [key |-> sc.tiles.tiles[i].key, bitfield |-> connected.bitfield]))

VisitEntry(sprites, sc, i, computed, pos, tile) ==
    IF tile.attrs.frame # None \/ tile.data = None
    THEN ConnectTiles(sprites, sc, i + 1, computed)
    ELSE IF sprites[tile.data[1]].tiling # "AUTOTILED"
    THEN ConnectTiles(sprites, [sc EXCEPT !.tiles.tiles[i].value.attrs.frame = <<0, 0>>],
                      i + 1, computed)
    ELSE Connect(sprites, sc, i, computed, ConnectTile(sc, pos, tile))

ConnectTiles(sprites, sc, i, computed) ==
    IF i > Len(sc.tiles.tiles) THEN [scene |-> sc, bitfields |-> computed, raised |-> NoError]
    ELSE VisitEntry(sprites, sc, i, computed, sc.tiles.tiles[i].key, sc.tiles.tiles[i].value)

(***************************************************************************)
(* The resolver as a state machine: a caller parses a grid of plain tiles  *)
(* and hands the scene to connect_autotiled.                               *)
(***************************************************************************)
CellNames == {"a", "b", "."}

CellSeparators == {" ", "\n"}

CellCount(text) == 1 + Cardinality({i \in 1..Len(text) : Ch(text, i) \in CellSeparators})

RECURSIVE GridTexts(_)
GridTexts(n) ==
    IF n = 1 THEN CellNames
    ELSE LET shorter == GridTexts(n - 1)
         IN  shorter \cup {s \o sep \o c : s \in {p \in shorter : CellCount(p) = n - 1},
                                            sep \in CellSeparators, c \in CellNames}

AutotileInit ==
    /\ bitfields = <<>>
    /\ key_error = NoError
    /\ autotile_pc = "call"

AutotileIdle ==
    /\ bitfields = <<>>
    /\ key_error = NoError
    /\ autotile_pc = "idle"

ConnectAutotiled ==
    /\ autotile_pc = "call"
    /\ parse_pc = "return"
    /\ scene.kind = "Scene"
    /\ LET res == ConnectTiles(DatabaseSprites, scene, 1, <<>>)
       IN  /\ scene' = res.scene
           /\ bitfields' = res.bitfields
           /\ key_error' = res.raised
    /\ autotile_pc' = "return"
    /\ UNCHANGED <<raw_scene, parse_pc, reg_vars, render_vars, unit_vars>>

(***************************************************************************)
(* The renderer (src/cogs/render.py).  The operators of one request work   *)
(* on a record w of what the request can reach: its own record req, the    *)
(* image cache, the database, the flag cache_dirty and the asset store     *)
(* files; ret is the value a call returned and exc the exception it        *)
(* raised.                                                                 *)
(***************************************************************************)
\* An image: the file it was opened from and the colours it has been
\* multiplied by since.  A sprite is TILE_SPACING pixels wide and high.
Image(path) == [path |-> path, tint |-> <<>>]

FileNotFoundError(path) == [kind |-> "FileNotFoundError", what |-> "", info |-> <<path>>]

IndexError(what) == [kind |-> "IndexError", what |-> what, info |-> <<>>]

ValueError(what) == [kind |-> "ValueError", what |-> what, info |-> <<>>]

NotImplementedError(what) == [kind |-> "NotImplementedError", what |-> what, info |-> <<>>]

\* RendererCog.recolor: the multiplication by white changes no pixel.
Recolor(sprite, rgb) ==
    IF rgb = <<255, 255, 255>> THEN sprite ELSE [sprite EXCEPT !.tint = Append(@, rgb)]

\* Image.open(path) has opened the file once more.
Reopened(counts, path) ==
    (path :> (IF path \in DOMAIN counts THEN counts[path] + 1 ELSE 1)) @@ counts

\* open_image without the test of line 49: the file is opened at every
\* call and the entry of the cache replaced.
OpenImageAlways(w, path) ==
    IF path \notin w.files
    THEN [w EXCEPT !.cache_dirty = TRUE, !.exc = FileNotFoundError(path)]
    ELSE [w EXCEPT !.cache_dirty = TRUE,
                   !.image_cache = (path :> Image(path)) @@ @,
                   !.opened = Reopened(@, path),
                   !.ret = Image(path)]

\* RendererCog.open_image: ret is a copy of the cached image.
OpenImage(w, path) ==
    IF path \in DOMAIN w.image_cache THEN [w EXCEPT !.ret = w.image_cache[path]]
    ELSE IF path \notin w.files
    THEN [w EXCEPT !.cache_dirty = TRUE, !.exc = FileNotFoundError(path)]
    ELSE [w EXCEPT !.cache_dirty = TRUE,
                   !.image_cache = (path :> Image(path)) @@ @,
                   !.opened = Reopened(@, path),
                   !.ret = Image(path)]

PalettePath(world, palette) == "data/" \o world \o "/palettes/" \o palette \o ".png"

\* getpixel((x, y))[:3] on a palette image, which is taken to hold every
\* index in use.
PalettePixel(x, y) == <<10 * x, 10 * y, 10 * (x + y)>>

\* The end of fix_color, on the palette image opened.
Sampled(w, color) ==
    IF w.exc.kind # "None" THEN w
    ELSE [w EXCEPT !.ret = ColorFromTuple(PalettePixel(color.r, color.g))]

\* fix_color without the test of line 323: a colour that is RGB already is
\* taken for a pair of palette indices and sampled again.
FixColorResampled(w, palette, color) ==
    IF (IF palette = None THEN "default" ELSE palette) \notin DOMAIN w.database.palettes
    THEN [w EXCEPT !.exc = KeyError(IF palette = None THEN "default" ELSE palette)]
    ELSE Sampled(OpenImage(w,
             PalettePath(w.database.palettes[IF palette = None THEN "default" ELSE palette],
                         IF palette = None THEN "default" ELSE palette)),
             color)

\* RendererCog.fix_color: ret is the Color as the call leaves it.
FixColor(w, palette, color) ==
    IF color.b # None THEN [w EXCEPT !.ret = color]
    ELSE IF (IF palette = None THEN "default" ELSE palette) \notin DOMAIN w.database.palettes
    THEN [w EXCEPT !.exc = KeyError(IF palette = None THEN "default" ELSE palette)]
    ELSE Sampled(OpenImage(w,
             PalettePath(w.database.palettes[IF palette = None THEN "default" ELSE palette],
                         IF palette = None THEN "default" ELSE palette)),
             color)

\* tuple(color) of an RGB colour.
ColorTuple(color) == <<color.r, color.g, color.b[1]>>

\* f"{frame}" of a frame number.
FrameText(frame) == IF frame = NoFrame THEN "None" ELSE ToString(frame)

\* image_path.with_stem(f"{sprite}_{frame}_{wobble}").
SpritePath(world, sprite, frame, wobble) ==
    "data/" \o world \o "/sprites/" \o sprite \o "_" \o FrameText(frame) \o "_"
    \o ToString(wobble) \o ".png"

\* The same stems with the wobble-1 fallbacks tried before the fallback
\* frame.
FallbacksWobbleFirst(world, sprite, frame, wobble) ==
    <<SpritePath(world, sprite, frame[1], wobble), SpritePath(world, sprite, frame[1], 1),
      SpritePath(world, sprite, frame[2], wobble), SpritePath(world, sprite, frame[2], 1)>>

\* fallbacks (lines 85-90), as paths.
Fallbacks(world, sprite, frame, wobble) ==
    <<SpritePath(world, sprite, frame[1], wobble), SpritePath(world, sprite, frame[2], wobble),
      SpritePath(world, sprite, frame[1], 1), SpritePath(world, sprite, frame[2], 1)>>

\* The for/else over the stems: <<path>> of the first that exists, or None.
FirstExisting(existing, paths) ==
    LET found == {k \in 1..Len(paths) : paths[k] \in existing}
    IN  IF found = {} THEN None ELSE <<paths[SetMin(found)]>>

\* The loop over the wobble frames (lines 82-102): ret is the list images.
RECURSIVE LoadSprites(_, _, _, _)
Opened(w, tile, wobble_frame, images) ==
    IF w.exc.kind # "None" THEN w
    ELSE LoadSprites(w, tile, wobble_frame + 1, Append(images, w.ret))

Found(w, tile, wobble_frame, images, path) ==
    IF path = None
    THEN [w EXCEPT !.exc = CustomError("Failed to find any sprites",
                                       <<tile.name, tile.attrs.frame[1]>>)]
    ELSE Opened(OpenImage(w, path[1]), tile, wobble_frame, images)

LoadSprites(w, tile, wobble_frame, images) ==
    IF wobble_frame > 3 THEN [w EXCEPT !.ret = images]
    ELSE Found(w, tile, wobble_frame, images,
               FirstExisting(w.files,
                   Fallbacks(tile.sprite[1], tile.sprite[2], tile.attrs.frame, wobble_frame)))

\* The (world, sprite) pairs random.choice picks from for the tile `2`.
CharacterSprites(sprites) ==
    {<<sprites[n].world, sprites[n].sprite>> :
        n \in {m \in DOMAIN sprites : sprites[m].tiling = "CHARACTER"}}

\* What random.choice can return for this tile: None stands for no call,
\* or for the IndexError of an empty list.
Choices(tile, sprites) ==
    IF tile.name = "2" /\ CharacterSprites(sprites) # {} THEN CharacterSprites(sprites)
    ELSE {None}

\* Lines 60-77: the frame and the sprite identity of the tile.
Identify(tile, sprites, choice) ==
    LET framed == IF tile.attrs.frame = None THEN [tile EXCEPT !.attrs.frame = <<0, 0>>]
                  ELSE tile
    IN  IF tile.name = "2"
        THEN [framed EXCEPT !.sprite = choice,
                            !.attrs.color = IF @ = None THEN ColorInit("rosy").val ELSE @]
        ELSE IF tile.data # None
        THEN [framed EXCEPT !.sprite = <<sprites[tile.data[1]].world,
                                         sprites[tile.data[1]].sprite>>]
        ELSE framed

SetTile(w, i, tile) == [w EXCEPT !.req.scene.tiles.tiles[i].value = tile]

\* RendererCog.render up to its first await (lines 146-163).
StartRender(w) ==
    [w EXCEPT !.cache_dirty = FALSE, !.req.pc = "render", !.req.i = 0,
              !.req.current_frame = 0, !.req.wobble = 1, !.req.frames = <<>>]

\* The for loop of assign_sprites reaching its i-th tile and the await of
\* line 59, or ending: the request goes on to render.
NextTile(w, i) ==
    IF i <= Len(w.req.scene.tiles.tiles) THEN [w EXCEPT !.req.pc = "assign", !.req.i = i]
    ELSE StartRender(w)

\* apply_sprite_variants up to its first await (line 127), or to its end
\* for a tile without variants.
StartVariants(w, i) ==
    IF Len(w.req.scene.tiles.tiles[i].value.variants) = 0
    THEN NextTile(w, i + 1)
    ELSE [w EXCEPT !.req.pc = "variants", !.req.vi = 1, !.req.fi = 1,
                   !.req.sprite_frames = <<>>, !.req.variants = <<>>]

\* Lines 110-114, on the colour fix_color left in w.ret: the colour object
\* fixed is the tile's own when it has one, else the one of the database.
Coloured(w, i, tile) ==
    IF w.exc.kind # "None" THEN w
    ELSE StartVariants(
             [SetTile(w, i,
                  [tile EXCEPT
                      !.attrs.color = IF @ = None THEN @ ELSE w.ret,
                      !.sprite = [k \in 1..Len(@) |-> Recolor(@[k], ColorTuple(w.ret))]])
              EXCEPT !.database.sprites =
                  IF tile.attrs.color = None
                  THEN [@ EXCEPT ![tile.data[1]].color = w.ret]
                  ELSE @],
             i)

\* Lines 103-109, on the images LoadSprites left in w.ret.
Loaded(w, i, tile) ==
    IF w.exc.kind # "None" THEN SetTile(w, i, tile)
    ELSE Coloured(FixColor(w, tile.attrs.palette,
                           IF tile.attrs.color # None THEN tile.attrs.color
                           ELSE w.database.sprites[tile.data[1]].color),
                  i, [tile EXCEPT !.sprite = w.ret])

\* Lines 78-106, on the tile Identify made.
Identified(w, i, tile) ==
    IF tile.name = "2" /\ tile.sprite = None
    THEN [SetTile(w, i, tile) EXCEPT
             !.exc = IndexError("Cannot choose from an empty sequence")]
    ELSE IF tile.sprite = None
    THEN [SetTile(w, i, tile) EXCEPT
             !.exc = CustomError("There's no tile with the name", <<tile.name>>)]
    ELSE Loaded(LoadSprites(w, tile, 1, <<>>), i, tile)

\* One turn of the loop of assign_sprites, from the await of line 59 to the
\* next await.
AssignTile(w, i, choice) ==
    Identified(w, i, Identify(w.req.scene.tiles.tiles[i].value, w.database.sprites, choice))

\* The loops of apply_sprite_variants going on after the frame fi of the
\* variant vi (lines 140-142), to the next await.
NextVariantFrame(w, i, tile) ==
    IF w.req.fi < Len(tile.sprite) THEN [w EXCEPT !.req.fi = @ + 1]
    ELSE IF w.req.vi < Len(tile.variants)
    THEN [SetTile(w, i, [tile EXCEPT !.sprite = w.req.sprite_frames])
          EXCEPT !.req.vi = @ + 1, !.req.fi = 1, !.req.sprite_frames = <<>>]
    ELSE NextTile(
             [SetTile(w, i, [tile EXCEPT !.sprite = w.req.sprite_frames,
                                         !.variants = w.req.variants])
              EXCEPT !.req.vi = 0, !.req.fi = 0, !.req.sprite_frames = <<>>,
                     !.req.variants = <<>>],
             i + 1)

\* Lines 133-137, on the colour fix_color left in w.ret: the argument of
\* the variant is the colour object fixed.
VariantColoured(w, i, tile) ==
    IF w.exc.kind # "None" THEN w
    ELSE NextVariantFrame(
             [w EXCEPT !.req.sprite_frames =
                           Append(@, Recolor(tile.sprite[w.req.fi], ColorTuple(w.ret)))],
             i, [tile EXCEPT !.variants[w.req.vi].arguments[1] = w.ret])

\* One turn of the inner loop of apply_sprite_variants (lines 128-140).
ApplyVariantFrame(w, i, tile, v) ==
    IF v.name = "meta" THEN [w EXCEPT !.exc = NotImplementedError("TODO: Meta")]
    ELSE IF v.name = "color"
    THEN VariantColoured(FixColor(w, tile.attrs.palette, v.arguments[1]), i, tile)
    ELSE NextVariantFrame(
             [w EXCEPT !.req.variants = Append(@, v),
                       !.req.sprite_frames = Append(@, tile.sprite[w.req.fi])],
             i, tile)

\* Position.__lt__.
PositionLess(a, b) ==
    IF a.z # b.z THEN a.z < b.z
    ELSE IF a.y # b.y THEN a.y < b.y
    ELSE IF a.x # b.x THEN a.x < b.x
    ELSE FALSE

\* sorted(tiles.items()): the sort is stable, an entry goes after the
\* entries that are not greater.
RECURSIVE Sorted(_)
Inserted(sorted, entry) ==
    LET before == {k \in 1..Len(sorted) : ~PositionLess(entry.key, sorted[k].key)}
        at == IF before = {} THEN 0 ELSE SetMax(before)
    IN  SubSeq(sorted, 1, at) \o <<entry>> \o SubSeq(sorted, at + 1, Len(sorted))

Sorted(entries) ==
    IF Len(entries) = 0 THEN <<>>
    ELSE Inserted(Sorted(SubSeq(entries, 1, Len(entries) - 1)), entries[Len(entries)])

\* The entries of the grid at the time t as the dict holds them, without
\* the sort of line 156.
TilesByTimeUnsorted(grid, t) ==
    SelectSeq(grid.tiles, LAMBDA entry : entry.key.t = t)

\* tiles_by_time.get(t): the entries of the grid at the time t, sorted.
TilesByTime(grid, t) ==
    Sorted(SelectSeq(grid.tiles, LAMBDA entry : entry.key.t = t))

\* RendererCog.composite for each tile of a timestep: [painted, exc].
\* alpha_composite raises ValueError for a negative destination.  An entry
\* of painted is one call of alpha_composite: the destination, the sprite,
\* and pos, the position of the tile it was called for.
RECURSIVE CompositeAll(_, _, _, _)
CompositeAll(tiles, wobble, k, painted) ==
    IF k > Len(tiles) THEN [painted |-> painted, exc |-> NoError]
    ELSE IF tiles[k].key.x < 0 \/ tiles[k].key.y < 0
    THEN [painted |-> painted, exc |-> ValueError("Destination must be non-negative")]
    ELSE CompositeAll(tiles, wobble, k + 1,
             Append(painted, [x |-> tiles[k].key.x, y |-> tiles[k].key.y,
                              sprite |-> tiles[k].value.sprite[wobble],
                              pos |-> tiles[k].key]))

\* Lines 184-189 and the reply of `tile`: the frames are encoded and sent.
Encode(w) ==
    IF Len(w.req.frames) = 0
    THEN [w EXCEPT !.exc = CustomError("No frames were generated in the render!", <<>>)]
    ELSE [w EXCEPT !.req.pc = "done", !.req.current_frame = 0, !.req.wobble = 0]

\* The outer loop of render reaching the frame t and the await of line 163,
\* or ending.
NextFrame(w, t) ==
    IF t < w.req.scene.tiles.length
    THEN [w EXCEPT !.req.current_frame = t, !.req.wobble = 1]
    ELSE Encode(w)

\* The canvas appended to frames (line 181): its size and what was painted
\* on it, in order; t and wobble tell the turn of the loops that made it.
Canvas(w, size, painted) ==
    [size |-> size, painted |-> painted, t |-> w.req.current_frame, wobble |-> w.req.wobble]

\* Lines 179-183, on what CompositeAll made of the canvas.
Composited(w, size, canvas) ==
    IF canvas.exc.kind # "None" THEN [w EXCEPT !.exc = canvas.exc]
    ELSE IF w.req.wobble < 3
    THEN [w EXCEPT !.req.frames = Append(@, Canvas(w, size, canvas.painted)),
                   !.req.wobble = @ + 1]
    ELSE NextFrame([w EXCEPT !.req.frames = Append(@, Canvas(w, size, canvas.painted))],
                   w.req.current_frame + 1)

\* The wobble loop without the test of lines 174-177: a timestep without
\* tiles would get blank canvases.
CompositeFramePadded(w, tiles) ==
    Composited(w,
        <<(w.req.scene.tiles.width + 1) * w.req.scene.tile_spacing,
          (w.req.scene.tiles.height + 1) * w.req.scene.tile_spacing>>,
        CompositeAll(tiles, w.req.wobble, 1, <<>>))

\* One turn of the wobble loop of render (lines 164-183), on the tiles of
\* the current frame.
CompositeFrame(w, tiles) ==
    IF Len(tiles) = 0 THEN NextFrame(w, w.req.current_frame + 1)
    ELSE Composited(w,
             <<(w.req.scene.tiles.width + 1) * w.req.scene.tile_spacing,
               (w.req.scene.tiles.height + 1) * w.req.scene.tile_spacing>>,
             CompositeAll(tiles, w.req.wobble, 1, <<>>))

\* Lines 278-282 of `tile`, on what parse returned.
TileParsed(w, parsed) ==
    IF parsed.kind # "Scene" THEN [w EXCEPT !.exc = parsed]
    ELSE NextTile([w EXCEPT !.req.scene = parsed], 1)

(***************************************************************************)
(* The renderer as a state machine: the requests are the `tile` commands   *)
(* the event loop runs, and a step of a request runs from one await to the *)
(* next.                                                                   *)
(***************************************************************************)
Requests == {1, 2}

Request(text) ==
    [pc |-> "parse", raw_scene |-> text, scene |-> None, raised |-> NoError,
     i |-> 0, vi |-> 0, fi |-> 0, sprite_frames |-> <<>>, variants |-> <<>>,
     current_frame |-> 0, wobble |-> 0, frames |-> <<>>, reported |-> None]

\* What a step of the request r starts from.
World(r) ==
    [req |-> requests[r], image_cache |-> image_cache, database |-> database,
     cache_dirty |-> cache_dirty, opened |-> opened, files |-> files, ret |-> None,
     exc |-> NoError]

\* ErrorHandler.on_command_error (errors.py), for the exceptions a command
\* can end with: the isinstance branch that sends the reply.  The last
\* branch prints the traceback and asks to report the error.
OnCommandError(exc) ==
    CASE exc.kind = "CustomError" -> <<"CustomError">>
      [] exc.kind = "ArgumentError" -> <<"ArgumentError">>
      [] exc.kind = "NotImplementedError" -> <<"NotImplementedError">>
      [] OTHER -> <<"uncaught">>

\* The event loop resumes the request at the head of its queue of ready
\* tasks; an empty queue leaves the order of the requests open.
Resumes(r) == IF ready = <<>> THEN TRUE ELSE Head(ready) = r

\* A scheduler that resumes the request that has just yielded before the
\* others.
RescheduledFirst(queue, r, ended) ==
    IF queue = <<>> THEN queue
    ELSE IF ended THEN Tail(queue)
    ELSE queue

\* await asyncio.sleep(0): the request goes to the end of the queue of
\* ready tasks; a request that has ended leaves it.
Rescheduled(queue, r, ended) ==
    IF queue = <<>> THEN queue
    ELSE IF ended THEN Tail(queue)
    ELSE Append(Tail(queue), r)

\* The end of a step: an exception ends the command, on_command_error
\* reports it.
Commit(r, w) ==
    /\ Resumes(r)
    /\ ready' = Rescheduled(ready, r, w.exc.kind # "None" \/ w.req.pc = "done")
    /\ requests' = [requests EXCEPT ![r] =
            IF w.exc.kind # "None"
            THEN [w.req EXCEPT !.pc = "failed", !.raised = w.exc,
                               !.reported = OnCommandError(w.exc)]
            ELSE w.req]
    /\ image_cache' = w.image_cache
    /\ database' = w.database
    /\ cache_dirty' = w.cache_dirty
    /\ opened' = w.opened
    /\ UNCHANGED <<files, reg_vars, parse_vars, autotile_vars, unit_vars>>

\* RendererCog.tile up to the first await of assign_sprites.
TileParse ==
    \E r \in Requests :
        /\ requests[r].pc = "parse"
        /\ Commit(r, TileParsed(World(r), Parse(database.sprites, requests[r].raw_scene)))

\* RendererCog.assign_sprites, one tile.
AssignSprites ==
    \E r \in Requests :
        /\ requests[r].pc = "assign"
        /\ \E choice \in Choices(requests[r].scene.tiles.tiles[requests[r].i].value,
                                 database.sprites) :
              Commit(r, AssignTile(World(r), requests[r].i, choice))

\* RendererCog.apply_sprite_variants, one frame of one variant.
ApplySpriteVariants ==
    \E r \in Requests :
        /\ requests[r].pc = "variants"
        /\ Commit(r, ApplyVariantFrame(World(r), requests[r].i,
                         requests[r].scene.tiles.tiles[requests[r].i].value,
                         requests[r].scene.tiles.tiles[requests[r].i].value
                             .variants[requests[r].vi]))

\* RendererCog.render, one canvas.
Render ==
    \E r \in Requests :
        /\ requests[r].pc = "render"
        /\ Commit(r, CompositeFrame(World(r),
                         TilesByTime(requests[r].scene.tiles, requests[r].current_frame)))

\* The texts of the requests.
RenderTexts == {"a a", "a:t/ur/r", "b:c/rosy", ".", "b>.>b", "b&a b"}

\* The asset store: the palette and these sprites are there, any of the
\* sprites of the tile a at the frames of `t/ur/r` may be.
StoredFiles ==
    {PalettePath("vanilla", "default"),
     SpritePath("vanilla", "a", 0, 1), SpritePath("vanilla", "a", 0, 2),
     SpritePath("vanilla", "a", 0, 3), SpritePath("vanilla", "b", 0, 1)}

OptionalFiles ==
    {SpritePath("vanilla", "a", f, k) : f \in {TilingFrame(200)[1], TilingFrame(200)[2]},
                                         k \in 1..3}

RenderInit ==
    /\ requests \in [Requests -> {Request(text) : text \in RenderTexts}]
    /\ files \in {StoredFiles \cup some : some \in SUBSET OptionalFiles}
    /\ image_cache = <<>>
    /\ database = [sprites |-> DatabaseSprites, palettes |-> [p \in {"default"} |-> "vanilla"]]
    /\ cache_dirty = FALSE
    /\ opened = <<>>
    /\ ready = <<>>

RenderIdle ==
    /\ requests = [r \in Requests |-> [Request("") EXCEPT !.pc = "idle"]]
    /\ files = {}
    /\ image_cache = <<>>
    /\ database = [sprites |-> DatabaseSprites, palettes |-> [p \in {"default"} |-> "vanilla"]]
    /\ cache_dirty = FALSE
    /\ opened = <<>>
    /\ ready = <<>>

(***************************************************************************)
(* Color as a state machine: a caller builds a Color from a text, takes    *)
(* its repr and builds a Color from that.                                  *)
(***************************************************************************)
\* f"{n:X}" of a natural number.
RECURSIVE HexDigits(_)
HexDigits(n) ==
    IF n < 16 THEN Ch("0123456789ABCDEF", n + 1)
    ELSE HexDigits(n \div 16) \o Ch("0123456789ABCDEF", (n % 16) + 1)

\* f"{n:X}": the digits as they come, without the padding to two characters.
HexUnpadded(n) == IF n < 0 THEN "-" \o HexDigits(0 - n) ELSE HexDigits(n)

\* f"{n:02X}": upper-case digits, the sign of a negative number, zeros after
\* the sign up to two characters in all.
Hex02(n) ==
    IF n < 0 THEN "-" \o HexDigits(0 - n)
    ELSE IF n < 16 THEN "0" \o HexDigits(n)
    ELSE HexDigits(n)

\* __repr__ without the padding of the components.
ColorReprUnpadded(color) ==
    IF color.b = None THEN ToString(color.r) \o "," \o ToString(color.g)
    ELSE "#" \o HexUnpadded(color.r) \o HexUnpadded(color.g) \o HexUnpadded(color.b[1])

\* Color.__repr__.
ColorRepr(color) ==
    IF color.b = None THEN ToString(color.r) \o "," \o ToString(color.g)
    ELSE "#" \o Hex02(color.r) \o Hex02(color.g) \o Hex02(color.b[1])

\* The components and the palette indices the texts are made of.
ColorComponents == {0, 9, 10, 15, 16, 127, 171, 255}

PaletteIndices == {-12, -1, 0, 7, 10, 255}

\* Two hexadecimal digits of a component, in one of the two cases.
TwoHex(n, digits) == Ch(digits, (n \div 16) + 1) \o Ch(digits, (n % 16) + 1)

\* The calls: given holds the numbers the text index was written from.
ColorCalls ==
    {[pc |-> "call", given |-> <<r, g, b>>,
      index |-> "#" \o TwoHex(r, digits) \o TwoHex(g, digits) \o TwoHex(b, digits)] :
        r \in ColorComponents, g \in ColorComponents, b \in ColorComponents,
        digits \in {"0123456789ABCDEF", "0123456789abcdef"}}
    \cup {[pc |-> "call", given |-> <<x, y>>, index |-> ToString(x) \o "," \o ToString(y)] :
            x \in PaletteIndices, y \in PaletteIndices}

ColorIdle == color_call = [pc |-> "idle"]

BuildIdle == build_call = [pc |-> "idle"]

AdjacentIdle == adjacent_call = [pc |-> "idle"]

UnitsIdle == ColorIdle /\ BuildIdle /\ AdjacentIdle

\* Color(index).
ColorParse ==
    /\ color_call.pc = "call"
    /\ color_call' = [pc |-> "parsed", given |-> color_call.given,
                      index |-> color_call.index, color |-> ColorInit(color_call.index)]
    /\ UNCHANGED <<reg_vars, parse_vars, autotile_vars, render_vars, build_call, adjacent_call>>

\* Color(repr(color)).
ColorReparse ==
    /\ color_call.pc = "parsed"
    /\ color_call.color.ok
    /\ color_call' = [pc |-> "reparsed", given |-> color_call.given,
                      index |-> color_call.index, color |-> color_call.color,
                      text |-> ColorRepr(color_call.color.val),
                      again |-> ColorInit(ColorRepr(color_call.color.val))]
    /\ UNCHANGED <<reg_vars, parse_vars, autotile_vars, render_vars, build_call, adjacent_call>>

(***************************************************************************)
(* build_attributes as a state machine: a caller hands it a grid, a fresh  *)
(* tile whose variants the registry has parsed, and a position.            *)
(***************************************************************************)
BuildRaws ==
    {"right", "up", "left", "down", "sleep", "displace/24/-24", "tiling/ur/r",
     "color/rosy", "meta"}

\* Lines 83-86 of parse_tile: the variants the registry made of the raw
\* variants, each of BuildRaws being one the registry accepts.
BuiltVariants(raw_variants) ==
    [i \in 1..Len(raw_variants) |-> ParseVariants(raw_variants)[i].variant]

TilingTokens == {"r", "u", "l", "d", "ur", "ul", "dl", "dr"}

\* The `tiling` variants of up to MaxTokens tokens.
TilingVariants == {Variant("tiling", tokens) : tokens \in SeqsUpTo(TilingTokens, MaxTokens)}

BuildPositions == {Position(0, 0, 0, 0), Position(2, 1, 1, 3)}

BuildGrid == [TileGrid EXCEPT !.width = 2, !.height = 1, !.length = 4]

BuildOf(variants, pos) ==
    [pc |-> "call", grid |-> BuildGrid, tile |-> Tile("b", variants), pos |-> pos]

\* One call of build_attributes: built is [tile, pos, raised], given the
\* arguments of the call; the grid is read (grid.spacing), never written.
BuildCall ==
    /\ build_call.pc = "call"
    /\ build_call' =
          [pc |-> "built",
           given |-> [grid |-> build_call.grid, tile |-> build_call.tile,
                      pos |-> build_call.pos],
           grid |-> build_call.grid,
           built |-> BuildAttributes(build_call.grid, build_call.tile, build_call.pos),
           bitfields |-> BuildLoop(build_call.tile, build_call.pos).bitfields]
    /\ UNCHANGED <<reg_vars, parse_vars, autotile_vars, render_vars, color_call,
                   adjacent_call>>

InitBuilder ==
    /\ \E raw_variants \in SeqsUpTo(BuildRaws, MaxVariants), pos \in BuildPositions :
          build_call = BuildOf(BuiltVariants(raw_variants), pos)
    /\ ColorIdle /\ AdjacentIdle
    /\ RegIdle /\ ParseIdle /\ AutotileIdle /\ RenderIdle

vars == <<reg_vars, parse_vars, autotile_vars, render_vars, unit_vars>>

SpecBuilder == InitBuilder /\ [][BuildCall]_vars

InitColor ==
    /\ color_call \in ColorCalls
    /\ BuildIdle /\ AdjacentIdle
    /\ RegIdle /\ ParseIdle /\ AutotileIdle /\ RenderIdle

ColorNext == ColorParse \/ ColorReparse

SpecColor == InitColor /\ [][ColorNext]_vars


RegNext == RegistryParseFound \/ RegistryParseNotFound

InitRegistry == RegInit /\ ParseIdle /\ AutotileIdle /\ RenderIdle /\ UnitsIdle

SpecRegistry == InitRegistry /\ [][RegNext]_vars

InitParser == ParseInit /\ RegIdle /\ AutotileIdle /\ RenderIdle /\ UnitsIdle

ParserNext == ParserParse

SpecParser == InitParser /\ [][ParserNext]_vars

(***************************************************************************)
(* The parser on scenes with displaced tiles: raw tiles with and without a *)
(* `displace` variant of one grid spacing, joined by the separators of the *)
(* four loops of parse.                                                    *)
(***************************************************************************)
DisplacedTiles ==
    {"a", "b", ".", "", "a:displace/24/0", "b:displace/-24/0", "b:disp/0/24",
     "a:disp/0/-24"}

TileSeparators == {" ", "\n", ">", "&"}

RECURSIVE DisplacedTexts(_)
DisplacedTexts(n) ==
    IF n = 1 THEN DisplacedTiles
    ELSE DisplacedTexts(n - 1)
         \cup {text \o sep \o raw_tile :
                  text \in DisplacedTexts(n - 1), sep \in TileSeparators,
                  raw_tile \in DisplacedTiles}

InitDisplaced ==
    /\ raw_scene \in DisplacedTexts(MaxTiles)
    /\ scene = NoError
    /\ parse_pc = "call"
    /\ RegIdle /\ AutotileIdle /\ RenderIdle /\ UnitsIdle

SpecDisplaced == InitDisplaced /\ [][ParserNext]_vars

\* The texts of the flags: up to MaxFlags tokens, each followed by a space,
\* a newline or nothing, and the text of a grid.
FlagTokens == {"--k", "--k=v", "--v=--k"}

FlagEnds == {" ", "\n", ""}

GridRests == {"", "a", "b a"}

RECURSIVE FlagPrefixes(_)
FlagPrefixes(n) ==
    IF n = 0 THEN {""}
    ELSE LET shorter == FlagPrefixes(n - 1)
         IN  shorter \cup {p \o token \o end : p \in shorter, token \in FlagTokens,
                                                 end \in FlagEnds}

FlagTexts == {p \o rest : p \in FlagPrefixes(MaxFlags), rest \in GridRests}

InitFlags ==
    /\ raw_scene \in FlagTexts
    /\ scene = NoError
    /\ parse_pc = "call"
    /\ RegIdle /\ AutotileIdle /\ RenderIdle /\ UnitsIdle

SpecFlags == InitFlags /\ [][ParserNext]_vars

InitAutotile ==
    /\ raw_scene \in GridTexts(MaxCells)
    /\ scene = NoError
    /\ parse_pc = "call"
    /\ RegIdle
    /\ AutotileInit
    /\ RenderIdle
    /\ UnitsIdle

AutotileNext == ParserParse \/ ConnectAutotiled

SpecAutotile == InitAutotile /\ [][AutotileNext]_vars

\* is_adjacent as a state machine: a caller parses a grid of up to MaxProbed
\* cells and asks about one position in or around it, for a tile `a`, with
\* either value of tile_borders.
IsAdjacentCall ==
    /\ adjacent_call.pc = "call"
    /\ parse_pc = "return"
    /\ scene.kind = "Scene"
    /\ \E x \in -1..(scene.tiles.width + 1), y \in -1..(scene.tiles.height + 1),
          tile_borders \in BOOLEAN :
          adjacent_call' =
              [pc |-> "return", pos |-> Position(x, y, 0, 0), tile |-> Tile("a", <<>>),
               tile_borders |-> tile_borders,
               result |-> IsAdjacent(Position(x, y, 0, 0), Tile("a", <<>>), scene.tiles,
                                     tile_borders)]
    /\ UNCHANGED <<reg_vars, parse_vars, autotile_vars, render_vars, color_call, build_call>>

InitAdjacent ==
    /\ raw_scene \in GridTexts(MaxProbed)
    /\ scene = NoError
    /\ parse_pc = "call"
    /\ adjacent_call = [pc |-> "call"]
    /\ ColorIdle /\ BuildIdle
    /\ RegIdle /\ AutotileIdle /\ RenderIdle

AdjacentNext == ParserParse \/ IsAdjacentCall

SpecAdjacent == InitAdjacent /\ [][AdjacentNext]_vars

\* The two makers of neighbour bitfields: either build_attributes is handed
\* a tile with one `tiling` variant, or connect_autotiled a parsed grid.
InitTiling ==
    \/ /\ \E tiling \in TilingVariants, pos \in BuildPositions :
              build_call = BuildOf(<<tiling>>, pos)
       /\ ColorIdle /\ AdjacentIdle
       /\ RegIdle /\ ParseIdle /\ AutotileIdle /\ RenderIdle
    \/ InitAutotile

TilingNext == BuildCall \/ ParserParse \/ ConnectAutotiled

SpecTiling == InitTiling /\ [][TilingNext]_vars

InitRender == RenderInit /\ RegIdle /\ ParseIdle /\ AutotileIdle /\ UnitsIdle

RenderNext == TileParse \/ AssignSprites \/ ApplySpriteVariants \/ Render

SpecRender == InitRender /\ [][RenderNext]_vars

\* The requests under the event loop of asyncio: both are ready, in either
\* order, and each await asyncio.sleep(0) hands over to the next one.
InitScheduled ==
    /\ requests \in [Requests -> {Request(text) : text \in RenderTexts}]
    /\ files \in {StoredFiles, StoredFiles \cup OptionalFiles}
    /\ image_cache = <<>>
    /\ database = [sprites |-> DatabaseSprites, palettes |-> [p \in {"default"} |-> "vanilla"]]
    /\ cache_dirty = FALSE
    /\ opened = <<>>
    /\ ready \in {<<1, 2>>, <<2, 1>>}
    /\ RegIdle /\ ParseIdle /\ AutotileIdle /\ UnitsIdle

\* What a step of a request does to the queue of ready tasks.  The event
\* loop does not idle while a task is ready, and a step of the request at
\* the head of the queue is enabled as long as there is one: the queue goes
\* on changing until it is empty.
RunOnce == ready # <<>> /\ ready' \in {Tail(ready), Append(Tail(ready), Head(ready))}

SpecScheduled == InitScheduled /\ [][RenderNext]_vars /\ WF_ready(RunOnce)

(***************************************************************************)
(* Properties of the parser, under SpecParser.  The grammar is restated    *)
(* here on the whole text, index by index, without the splits of parse.    *)
(***************************************************************************)
Parsed == parse_pc = "return"

\* The number of consecutive backslashes immediately before index i.
BackslashesBefore(s, i) ==
    LET others == {j \in 1..(i - 1) : Ch(s, j) # "\\"}
    IN  IF others = {} THEN i - 1 ELSE i - 1 - SetMax(others)

\* The grammar's split points: a newline, or one of the separators after an
\* even number of backslashes.
SplitsOn(s, i, sep) == Ch(s, i) = sep /\ BackslashesBefore(s, i) % 2 = 0

RowSplit(s, i) == Ch(s, i) = "\n"

StackSplit(s, i) == SplitsOn(s, i, " ")

CellSplit(s, i) == SplitsOn(s, i, "&")

StepSplit(s, i) == SplitsOn(s, i, ">")

AnySplit(s, i) == RowSplit(s, i) \/ StackSplit(s, i) \/ CellSplit(s, i) \/ StepSplit(s, i)

\* The indices a raw tile starts at (an empty raw tile starts where it would
\* have stood).
TokenStarts(s) == {i \in 1..(Len(s) + 1) : i = 1 \/ AnySplit(s, i - 1)}

TokenText(s, i) ==
    LET later == {j \in i..Len(s) : AnySplit(s, j)}
    IN  SubSeq(s, i, IF later = {} THEN Len(s) ELSE SetMin(later) - 1)

\* The row, stack, cell and step index of the raw tile that starts at i.
RowIndex(s, i) == Cardinality({j \in 1..(i - 1) : RowSplit(s, j)})

StackIndex(s, i) ==
    Cardinality({j \in 1..(i - 1) :
        StackSplit(s, j) /\ \A k \in (j + 1)..(i - 1) : ~RowSplit(s, k)})

CellIndex(s, i) ==
    Cardinality({j \in 1..(i - 1) :
        CellSplit(s, j) /\ \A k \in (j + 1)..(i - 1) : ~(RowSplit(s, k) \/ StackSplit(s, k))})

StepIndex(s, i) ==
    Cardinality({j \in 1..(i - 1) :
        StepSplit(s, j) /\ \A k \in (j + 1)..(i - 1) :
            ~(RowSplit(s, k) \/ StackSplit(s, k) \/ CellSplit(s, k))})

\* The raw tile that names the one starting at i: itself when it has a name,
\* else the nearest earlier raw tile of the same cell that has one (0: none).
NameSource(s, i) ==
    IF TokenText(s, i) # "" THEN i
    ELSE LET earlier == {j \in TokenStarts(s) :
                            /\ j < i
                            /\ TokenText(s, j) # ""
                            /\ \A k \in j..(i - 1) : AnySplit(s, k) => StepSplit(s, k)}
         IN  IF earlier = {} THEN 0 ELSE SetMax(earlier)

IsStored(s, i) == NameSource(s, i) # 0 /\ TokenText(s, NameSource(s, i)) # "."

ExpectedTiles(s) ==
    {[pos |-> [x |-> StackIndex(s, i) * TILE_SPACING, y |-> RowIndex(s, i) * TILE_SPACING,
               z |-> CellIndex(s, i), t |-> StepIndex(s, i)],
      name |-> TokenText(s, NameSource(s, i))] : i \in {j \in TokenStarts(s) : IsStored(s, j)}}

StoredTiles ==
    {[pos |-> scene.tiles.tiles[i].key, name |-> scene.tiles.tiles[i].value.name] :
        i \in 1..Len(scene.tiles.tiles)}

OnlyChars(s, chars) == \A i \in 1..Len(s) : Ch(s, i) \in chars

\* C1: for a raw scene of single tile names only (no flags, escapes,
\* variants, '&' or '>'), the grid's width is the largest stack index, its
\* height the largest row index, and every cell whose name is neither '.'
\* nor empty is stored as exactly one tile, under that name, at (x, y, 0, 0);
\* no other position is occupied.
C1_SimpleSceneFillsItsCells ==
    (Parsed /\ OnlyChars(raw_scene, {"a", "b", ".", " ", "\n"}))
        => /\ scene.kind = "Scene"
           /\ scene.tiles.width = SetMax({StackIndex(raw_scene, i) : i \in TokenStarts(raw_scene)})
           /\ scene.tiles.height = SetMax({RowIndex(raw_scene, i) : i \in TokenStarts(raw_scene)})
           /\ StoredTiles = ExpectedTiles(raw_scene)
           /\ Len(scene.tiles.tiles) = Cardinality(ExpectedTiles(raw_scene))
           /\ \A e \in StoredTiles : e.pos.z = 0 /\ e.pos.t = 0

C1_Witness ==
    /\ Parsed
    /\ OnlyChars(raw_scene, {"a", "b", ".", " ", "\n"})
    /\ scene.kind = "Scene"
    /\ scene.tiles.width = 1
    /\ scene.tiles.height = 1
    /\ Len(scene.tiles.tiles) = 2

\* C2: for each of the separators space, '&' and '>' and every run of n >= 0
\* backslashes immediately before it, the parser splits at the separator
\* exactly when n is even: the tiles it stores, the width (the stack splits)
\* and the length (the step splits) are those of the grammar's split points.
C2_SplitsExactlyAfterEvenBackslashes ==
    (Parsed /\ scene.kind = "Scene")
        => /\ StoredTiles = ExpectedTiles(raw_scene)
           /\ scene.tiles.width = SetMax({StackIndex(raw_scene, i) : i \in TokenStarts(raw_scene)})
           /\ scene.tiles.length =
                 1 + SetMax({StepIndex(raw_scene, i) : i \in TokenStarts(raw_scene)})

\* C3: within one cell, a step with an empty name is stored under the name
\* of the nearest earlier step of the cell that was stored, if no '.' step
\* lies between them; an empty step without such a predecessor stores
\* nothing, and a '.' step stores nothing.
C3_EmptyStepTakesNearestStoredName ==
    (Parsed /\ OnlyChars(raw_scene, {"a", "b", ".", " ", "\n", "&", ">"}))
        => /\ scene.kind = "Scene"
           /\ StoredTiles = ExpectedTiles(raw_scene)
           /\ Len(scene.tiles.tiles) = Cardinality(ExpectedTiles(raw_scene))

C3_Witness ==
    /\ Parsed
    /\ raw_scene = "a>b>"
    /\ scene.kind = "Scene"
    /\ Len(scene.tiles.tiles) = 3
    /\ scene.tiles.tiles[3].value.name = "b"
    /\ scene.tiles.tiles[3].key.t = 2

(***************************************************************************)
(* Properties of the variant registry, under SpecRegistry.                 *)
(***************************************************************************)
\* The Variant as the caller built it, before parse changed it.
Given == VariantOf(raw_variant)

Returned == reg_pc = "return"

\* C4: for the variadic signature `tiling` (str, ...) and every n >= 1 raw
\* arguments, resolve_variant succeeds and the resolved arguments are exactly
\* the n supplied values, in order, with no default slot left over.
C4_VariadicTakesEverySuppliedArgument ==
    (Returned /\ Given.name \in {"tiling", "t"} /\ Len(Given.arguments) >= 1)
        => /\ raised.kind = "None"
           /\ variant.arguments = Given.arguments

\* The number of arguments each non-variadic signature with required
\* arguments declares (variants.py, setup).
DeclaredCount == [n \in {"displace", "disp", "color", "c"} |->
                    IF n \in {"displace", "disp"} THEN 2 ELSE 1]

\* C5: with fewer raw arguments than the signature declares and no default
\* for the missing ones, resolve_variant fails with the 'not enough
\* arguments' error, and the count it reports as required is the number of
\* arguments the signature declares, not the number supplied.
C5_NotEnoughArgumentsNamesDeclaredCount ==
    (/\ Returned
     /\ Given.name \in DOMAIN DeclaredCount
     /\ Len(Given.arguments) < DeclaredCount[Given.name]
     /\ \A i \in 1..Len(Given.arguments) : Given.arguments[i] = "4")
        => /\ raised.kind = "CustomError"
           /\ raised.what = "Only i arguments were provided"
           /\ raised.info[3] = DeclaredCount[Given.name]

\* The declared type of the first argument of each signature whose first
\* argument can fail to coerce (variants.py, setup).
FirstType == [n \in {"meta", "m", "displace", "disp", "color", "c"} |->
                IF n \in {"color", "c"} THEN "Color" ELSE "int"]

\* Raw arguments that are no int, and raw arguments that are no Color.
NotAnInt == {"u", "ul", "1,2", "1,u", "#00FF7f"}

NotAColor == {"4", "u", "ul", "1,u"}

FirstArgumentFailsToCoerce ==
    /\ Given.name \in DOMAIN FirstType
    /\ Len(Given.arguments) >= 1
    /\ \/ FirstType[Given.name] = "int" /\ Given.arguments[1] \in NotAnInt
       \/ FirstType[Given.name] = "Color" /\ Given.arguments[1] \in NotAColor

\* C6: a raw argument that cannot be coerced to its declared type makes
\* resolve_variant fail with an ArgumentError carrying (the declared type, the
\* offending raw string, the text of the variant being resolved), and with no
\* other kind of error.
C6_CoercionFailureIsArgumentError ==
    (Returned /\ FirstArgumentFailsToCoerce)
        => /\ raised.kind = "ArgumentError"
           /\ raised.info[1] = FirstType[Given.name]
           /\ raised.info[2] = Given.arguments[1]
           /\ raised.info[3] \in {VariantRepr(Given), VariantRepr(variant)}

\* The first alias of the signature each alias belongs to (variants.py, setup).
Canonical ==
    [n \in {"meta", "m", "left", "l", "up", "u", "right", "r", "down", "d", "sleep",
            "s", "displace", "disp", "color", "c", "tiling", "t"} |->
        CASE n \in {"meta", "m"} -> "meta"
          [] n \in {"left", "l"} -> "left"
          [] n \in {"up", "u"} -> "up"
          [] n \in {"right", "r"} -> "right"
          [] n \in {"down", "d"} -> "down"
          [] n \in {"sleep", "s"} -> "sleep"
          [] n \in {"displace", "disp"} -> "displace"
          [] n \in {"color", "c"} -> "color"
          [] n \in {"tiling", "t"} -> "tiling"]

IsUnknownVariant(exc) ==
    exc.kind = "CustomError" /\ exc.what = "Couldn't find a variant"

\* C7: an alias of a registered signature is replaced by that signature's
\* first alias, whichever signature the loop over the registry set meets
\* first; a name that is an alias of no signature (the empty name too) fails
\* with the 'unknown variant' error and leaves name and raw arguments as
\* they were.
C7_AliasIsCanonicalisedOrUnknown ==
    Returned =>
        IF Given.name \in DOMAIN Canonical
        THEN /\ variant.name = Canonical[Given.name]
             /\ ~IsUnknownVariant(raised)
        ELSE /\ IsUnknownVariant(raised)
             /\ raised.info[1] = Given.name
             /\ variant = Given

C7_Witness ==
    /\ Returned
    /\ Given.name = "disp"
    /\ variant.name = "displace"
    /\ raised.kind = "None"

(***************************************************************************)
(* Properties of the autotile resolver, under SpecAutotile.  What a        *)
(* neighbour cell holds is read here from the dict of the grid alone.      *)
(***************************************************************************)
Resolved == autotile_pc = "return" /\ key_error.kind = "None"

\* The cell dx columns and dy rows away, at the same z and t.
Offset(pos, dx, dy) ==
    [pos EXCEPT !.x = @ + dx * TILE_SPACING, !.y = @ + dy * TILE_SPACING]

\* The cell holds a tile of that name, or one of the connector names.
Joins(grid, at, name) ==
    /\ at \in DictKeys(grid.tiles)
    /\ DictGet(grid.tiles, at).name \in {name, "level", "border"}

BitOf(holds, k) == IF holds THEN 2 ^ k ELSE 0

ExpectedBitfield(grid, pos, name) ==
    LET r == Joins(grid, Offset(pos, 1, 0), name)
        u == Joins(grid, Offset(pos, 0, -1), name)
        l == Joins(grid, Offset(pos, -1, 0), name)
        d == Joins(grid, Offset(pos, 0, 1), name)
    IN  BitOf(r, 7) + BitOf(u, 6) + BitOf(l, 5) + BitOf(d, 4)
        + BitOf(u /\ r /\ Joins(grid, Offset(pos, 1, -1), name), 3)
        + BitOf(u /\ l /\ Joins(grid, Offset(pos, -1, -1), name), 2)
        + BitOf(d /\ l /\ Joins(grid, Offset(pos, -1, 1), name), 1)
        + BitOf(d /\ r /\ Joins(grid, Offset(pos, 1, 1), name), 0)

\* C8: when the resolver has gone through the grid, the bitfield it computed
\* for an autotiled tile without a frame has each cardinal bit (r=7, u=6,
\* l=5, d=4) set exactly when the cell at that offset holds a joining tile,
\* and each diagonal bit set exactly when the diagonal cell and both cardinal
\* cells next to it hold joining tiles.
C8_BitfieldCountsJoiningNeighbours ==
    Resolved =>
        \A k \in 1..Len(bitfields) :
            bitfields[k].bitfield =
                ExpectedBitfield(scene.tiles, bitfields[k].key,
                                 DictGet(scene.tiles.tiles, bitfields[k].key).name)

(***************************************************************************)
(* Properties of the renderer, under SpecRender.                           *)
(***************************************************************************)
\* The tile the request r is about to assign a sprite to.
Assigning(r) == requests[r].scene.tiles.tiles[requests[r].i]

\* C9: parse, then the autotile resolver, then the sprite assigner: an
\* autotiled tile without a frame of its own that has a joining neighbour
\* reaches the sprite assigner with the frame pair of its neighbour bitfield.
C9_AssignerSeesResolvedFrames ==
    \A r \in Requests :
        requests[r].pc = "assign" =>
            LET pos == Assigning(r).key
                tile == Assigning(r).value
                bitfield == ExpectedBitfield(requests[r].scene.tiles, pos, tile.name)
                parsed == Parse(database.sprites, requests[r].raw_scene)
            IN  (/\ tile.data # None
                 /\ database.sprites[tile.data[1]].tiling = "AUTOTILED"
                 /\ DictGet(parsed.tiles.tiles, pos).attrs.frame = None
                 /\ bitfield # 0)
                => tile.attrs.frame = AutotileFrame(bitfield)

\* The frame pair the assigner works with: (0, 0) for a tile without one.
FramePair(tile) == IF tile.attrs.frame = None THEN <<0, 0>> ELSE tile.attrs.frame

\* The file of the sprite of the tile at a frame and a wobble sub-frame.
FileOf(tile, frame, wobble) ==
    SpritePath(database.sprites[tile.data[1]].world, database.sprites[tile.data[1]].sprite,
               frame, wobble)

NoneOfTheFour(tile, wobble) ==
    /\ FileOf(tile, FramePair(tile)[1], wobble) \notin files
    /\ FileOf(tile, FramePair(tile)[2], wobble) \notin files
    /\ FileOf(tile, FramePair(tile)[1], 1) \notin files
    /\ FileOf(tile, FramePair(tile)[2], 1) \notin files

FirstOfTheFour(tile, wobble) ==
    IF FileOf(tile, FramePair(tile)[1], wobble) \in files
    THEN FileOf(tile, FramePair(tile)[1], wobble)
    ELSE IF FileOf(tile, FramePair(tile)[2], wobble) \in files
    THEN FileOf(tile, FramePair(tile)[2], wobble)
    ELSE IF FileOf(tile, FramePair(tile)[1], 1) \in files
    THEN FileOf(tile, FramePair(tile)[1], 1)
    ELSE FileOf(tile, FramePair(tile)[2], 1)

NoSpriteFound(exc, tile) ==
    exc = CustomError("Failed to find any sprites", <<tile.name, FramePair(tile)[1]>>)

\* One turn of the sprite assigner on the tile of the request r.
Assigns(r) == requests[r].pc = "assign" /\ requests'[r] # requests[r]

\* C10: a turn of the sprite assigner on a tile with a sprite identity loads,
\* for each wobble sub-frame w in 1..3, the first file there is in the order
\* (f0,w), (f1,w), (f0,1), (f1,1); when there is none of the four for some
\* w, the turn fails with the 'no sprite found' error naming the tile and
\* f0, opens no image and leaves the tile without images.
C10_LoadsFirstExistingFallback ==
    [][\A r \in Requests :
          (Assigns(r) /\ Assigning(r).value.data # None) =>
              LET tile == Assigning(r).value
                  assigned == requests'[r].scene.tiles.tiles[requests[r].i].value
              IN  IF \E w \in 1..3 : NoneOfTheFour(tile, w)
                  THEN /\ requests'[r].pc = "failed"
                       /\ NoSpriteFound(requests'[r].raised, tile)
                       /\ image_cache' = image_cache
                       /\ assigned.sprite = <<database.sprites[tile.data[1]].world,
                                              database.sprites[tile.data[1]].sprite>>
                  ELSE /\ requests'[r].pc # "failed"
                       /\ Len(assigned.sprite) = 3
                       /\ \A w \in 1..3 :
                             /\ assigned.sprite[w].path = FirstOfTheFour(tile, w)
                             /\ FirstOfTheFour(tile, w) \in DOMAIN image_cache']_vars

\* One request got the sprite of `b` at (f0,1) for the wobble sub-frame 2,
\* for want of a file at (f0,2) and (f1,2); another found none of the four
\* files of `a:t/ur/r`.
C10_Witness ==
    \E r \in Requests, q \in Requests :
        /\ requests[r].pc \in {"render", "done"}
        /\ requests[r].raw_scene = "b:c/rosy"
        /\ requests[r].scene.tiles.tiles[1].value.sprite[2].path
               = SpritePath("vanilla", "b", 0, 1)
        /\ requests[q].pc = "failed"
        /\ requests[q].raw_scene = "a:t/ur/r"
        /\ requests[q].raised.what = "Failed to find any sprites"

\* The timesteps of the scene of the request r that hold a tile.
Timesteps(r) ==
    {requests[r].scene.tiles.tiles[i].key.t : i \in 1..Len(requests[r].scene.tiles.tiles)}

\* The k-th smallest member of a set of numbers.
Nth(S, k) == CHOOSE x \in S : Cardinality({y \in S : y < x}) = k - 1

CanvasSize(r) ==
    <<(requests[r].scene.tiles.width + 1) * requests[r].scene.tile_spacing,
      (requests[r].scene.tiles.height + 1) * requests[r].scene.tile_spacing>>

\* C11: render hands the encoder three canvases (wobble 1, 2, 3, in that
\* order) for each timestep in 0..length-1 that holds a tile, in ascending
\* order of the timesteps, and none for a timestep without tiles; every
\* canvas is (width+1)*spacing wide and (height+1)*spacing high.
C11_ThreeCanvasesPerPopulatedTimestep ==
    \A r \in Requests :
        requests[r].pc = "done" =>
            /\ Timesteps(r) \subseteq 0..(requests[r].scene.tiles.length - 1)
            /\ Len(requests[r].frames) = 3 * Cardinality(Timesteps(r))
            /\ \A k \in 1..Len(requests[r].frames) :
                  /\ requests[r].frames[k].t = Nth(Timesteps(r), ((k - 1) \div 3) + 1)
                  /\ requests[r].frames[k].wobble = ((k - 1) % 3) + 1
                  /\ requests[r].frames[k].size = CanvasSize(r)

\* `b>.>b` rendered: six canvases, none for the timestep 1.
C11_Witness ==
    \E r \in Requests :
        /\ requests[r].pc = "done"
        /\ requests[r].raw_scene = "b>.>b"
        /\ requests[r].scene.tiles.length = 3
        /\ Len(requests[r].frames) = 6
        /\ requests[r].frames[4].t = 2

\* The order (z, then y, then x) between two positions.
PaintedBefore(a, b) ==
    \/ a.z < b.z
    \/ a.z = b.z /\ a.y < b.y
    \/ a.z = b.z /\ a.y = b.y /\ a.x < b.x

\* C12: on every canvas the tiles of the timestep are painted, each once,
\* in ascending order of (z, then y, then x): of two tiles of a timestep the
\* one with the larger z is painted after the other, whatever their order
\* in the grid.
C12_PaintsInDepthOrder ==
    \A r \in Requests :
        \A k \in 1..Len(requests[r].frames) :
            LET painted == requests[r].frames[k].painted
                tiles == requests[r].scene.tiles.tiles
            IN  /\ {painted[j].pos : j \in 1..Len(painted)}
                       = {tiles[i].key : i \in {n \in 1..Len(tiles) :
                                                   tiles[n].key.t = requests[r].frames[k].t}}
                /\ \A i \in 1..Len(painted), j \in 1..Len(painted) :
                      i < j => /\ PaintedBefore(painted[i].pos, painted[j].pos)
                               /\ painted[i].pos.z <= painted[j].pos.z

\* `b&a b` rendered: the tile at z = 1, second in the grid, is painted last.
C12_Witness ==
    \E r \in Requests :
        /\ requests[r].pc = "done"
        /\ requests[r].raw_scene = "b&a b"
        /\ requests[r].scene.tiles.tiles[2].key.z = 1
        /\ Len(requests[r].frames[1].painted) = 3
        /\ requests[r].frames[1].painted[3].pos = requests[r].scene.tiles.tiles[2].key

\* render ended without a canvas.
ZeroCanvases(r) ==
    /\ requests[r].pc = "failed"
    /\ requests[r].scene # None
    /\ requests[r].raised.what = "No frames were generated in the render!"

\* The kinds the errors of the user's input are raised with: an unknown
\* variant or tile, too few arguments, no sprite (CustomError), an argument
\* that does not parse (ArgumentError).
UserErrorKinds == {"CustomError", "ArgumentError"}

\* C13: a render that produced no canvas fails with an error whose kind is
\* not one used for the errors of the user's input, and the handler reports
\* it on another path than those errors.
C13_ZeroCanvasesIsInternalError ==
    \A r \in Requests :
        ZeroCanvases(r) =>
            /\ requests[r].raised.kind \notin UserErrorKinds
            /\ requests[r].reported # None
            /\ requests[r].reported[1] \notin UserErrorKinds

(***************************************************************************)
(* Properties of Color, under SpecColor.                                   *)
(***************************************************************************)
\* The components of a Color, a pair for a palette index.
Components(color) ==
    IF color.b = None THEN <<color.r, color.g>> ELSE <<color.r, color.g, color.b[1]>>

\* C14: the Color parsed from '#RRGGBB' has the components (r, g, b) the
\* text was written from, the Color parsed from 'a,b' has the components
\* (a, b) and no third one, and the Color parsed from the text form of
\* either has the same components again.
C14_ColorRoundTrip ==
    /\ color_call.pc \in {"parsed", "reparsed"} =>
          /\ color_call.color.ok
          /\ Components(color_call.color.val) = color_call.given
    /\ color_call.pc = "reparsed" =>
          /\ color_call.again.ok
          /\ Components(color_call.again.val) = color_call.given

C14_Witness ==
    /\ color_call.pc = "reparsed"
    /\ color_call.index = "#ab09ff"
    /\ color_call.text = "#AB09FF"
    /\ color_call.again.val = [r |-> 171, g |-> 9, b |-> <<255>>]

(***************************************************************************)
(* Properties of the flags, under SpecFlags.                               *)
(***************************************************************************)
\* The character of s at index i, the empty string past its end.
CharAt(s, i) == IF i \in 1..Len(s) THEN Ch(s, i) ELSE ""

\* The index after a leading token `--key` or `--key=value` of s, 0 when s
\* does not start with one: the key is made of word characters, the value
\* of characters that are no white space.
FlagTokenEnd(s) ==
    LET key == RunLength(s, 3, WordChars, TRUE)
        value == RunLength(s, 4 + key, SpaceChars, FALSE)
    IN  IF ~StartsWith(s, "--") \/ key = 0 THEN 0
        ELSE IF CharAt(s, 3 + key) = "=" /\ value >= 1 THEN 4 + key + value
        ELSE 3 + key

\* The flags of the grammar: the leading tokens that are each followed by a
\* space, and the text after them.
RECURSIVE GrammarFlags(_, _)
GrammarFlags(s, flags) ==
    LET end == FlagTokenEnd(s)
        key == RunLength(s, 3, WordChars, TRUE)
        bare == end = 3 + key
    IN  IF end = 0 \/ CharAt(s, end) # " " THEN [flags |-> flags, rest |-> s]
        ELSE GrammarFlags(SubSeq(s, end + 1, Len(s)),
                 DictSet(flags, SubSeq(s, 3, 2 + key),
                     [bare |-> bare,
                      value |-> IF bare THEN "" ELSE SubSeq(s, 4 + key, end - 1)]))

\* C15: parse takes as flags the longest prefix of tokens `--key` or
\* `--key=value` that are each followed by a space, a bare key as true and
\* a key with a value as that string; a leading token that no space follows
\* is no flag and stays in the text of the grid.
C15_FlagsAreTokensFollowedBySpace ==
    (Parsed /\ scene.kind = "Scene") =>
        /\ scene.flags = GrammarFlags(raw_scene, <<>>).flags
        /\ scene.tiles =
              ParseGrid(DatabaseSprites,
                        [flags |-> <<>>, rest |-> GrammarFlags(raw_scene, <<>>).rest]).tiles

(***************************************************************************)
(* Properties of build_attributes, under SpecBuilder.                      *)
(***************************************************************************)
BuildReturned == build_call.pc = "built" /\ build_call.built.raised.kind = "None"

BuildRaised == build_call.pc = "built" /\ build_call.built.raised.kind # "None"

DirectionFrames == [right |-> <<0, 0>>, up |-> <<8, 8>>, left |-> <<16, 16>>, down |-> <<24, 24>>]

\* The frame pair after the first n variants, None when none of them set
\* one, <<"fail">> when a `sleep` among them met no frame.  A `tiling`
\* variant sets the frame pair of its tokens.
RECURSIVE FrameAfter(_, _)
FrameAfter(variants, n) ==
    LET before == FrameAfter(variants, n - 1)
        name == variants[n].name
    IN  IF n = 0 THEN None
        ELSE IF before = <<"fail">> THEN before
        ELSE IF name \in DOMAIN DirectionFrames THEN DirectionFrames[name]
        ELSE IF name = "sleep"
        THEN IF before = None THEN <<"fail">>
             ELSE <<(before[1] + 31) % 32, (before[1] + 31) % 32>>
        ELSE IF name = "tiling" THEN TilingFrame(TilingBitfield(variants[n].arguments, 0))
        ELSE before

StructuralNames == {"right", "up", "left", "down", "sleep", "displace", "tiling"}

White == [r |-> 255, g |-> 255, b |-> <<255>>]

\* C18: after build_attributes has run on a tile, the variants of the tile
\* are those of its former list whose names are none of right, up, left,
\* down, sleep, displace and tiling, in their order, a `color` variant kept
\* as it was; the colour of the tile is white exactly when a `color`
\* variant was there; the position returned has the z and the t of the
\* position given, and the width, height and length of the grid are as
\* before.
C18_BuilderKeepsTheOtherVariants ==
    BuildReturned =>
        LET given == build_call.given
            built == build_call.built
            Kept(v) == v.name \notin StructuralNames
            coloured == \E i \in 1..Len(given.tile.variants) :
                            given.tile.variants[i].name = "color"
        IN  /\ built.tile.variants = SelectSeq(given.tile.variants, Kept)
            /\ built.tile.attrs.color = (IF coloured THEN White ELSE given.tile.attrs.color)
            /\ coloured <=> built.tile.attrs.color = White
            /\ built.pos.z = given.pos.z /\ built.pos.t = given.pos.t
            /\ build_call.grid.width = given.grid.width
            /\ build_call.grid.height = given.grid.height
            /\ build_call.grid.length = given.grid.length

C18_Witness ==
    /\ BuildReturned
    /\ LET variants == build_call.given.tile.variants
       IN  /\ Len(variants) = 3
           /\ variants[1].name = "displace" /\ variants[2].name = "color"
           /\ variants[3].name = "meta"
           /\ build_call.built.tile.variants = <<variants[2], variants[3]>>
    /\ build_call.given.pos.z = 1
    /\ build_call.built.pos.x # build_call.given.pos.x

(***************************************************************************)
(* Properties of the neighbour bitfields, under SpecTiling.                *)
(***************************************************************************)
\* The bit of each direction, and the two cardinal directions next to each
\* diagonal one.
DirectionBit ==
    [r |-> 7, u |-> 6, l |-> 5, d |-> 4, ur |-> 3, ul |-> 2, dl |-> 1, dr |-> 0]

NextTo == [ur |-> {"u", "r"}, ul |-> {"u", "l"}, dl |-> {"d", "l"}, dr |-> {"d", "r"}]

\* The directions a list of tokens joins: each token, and for a diagonal
\* token the two cardinal directions next to it.
JoinedBy(tokens) ==
    UNION {{tokens[i]} \cup (IF tokens[i] \in DOMAIN NextTo THEN NextTo[tokens[i]] ELSE {}) :
              i \in 1..Len(tokens)}

RECURSIVE BitfieldOf(_)
BitfieldOf(directions) ==
    IF directions = {} THEN 0
    ELSE LET direction == CHOOSE e \in directions : TRUE
         IN  2 ^ DirectionBit[direction] + BitfieldOf(directions \ {direction})

\* The directions whose bit is set in a bitfield.
DirectionsOf(bitfield) ==
    {direction \in DOMAIN DirectionBit : Bit(bitfield, DirectionBit[direction]) = 1}

DiagonalHasCardinals(bitfield) ==
    \A diagonal \in DOMAIN NextTo :
        diagonal \in DirectionsOf(bitfield) => NextTo[diagonal] \subseteq DirectionsOf(bitfield)

\* The tokens of a set of directions, in the order of the bits.
TokensOf(directions) ==
    SelectSeq(<<"r", "u", "l", "d", "ur", "ul", "dl", "dr">>,
              LAMBDA token : token \in directions)

\* C17: the bitfield of a manual `tiling` variant is the OR of its tokens
\* with r=7, u=6, l=5, d=4, ur=3, ul=2, dl=1, dr=0, a diagonal token setting
\* its two cardinal bits too; in every bitfield of the manual variant and of
\* the resolver a set diagonal bit comes with both cardinal bits next to it,
\* and the manual variant naming the directions of a resolver bitfield gives
\* that bitfield.
C17_ManualAndResolvedBitfieldsAgree ==
    /\ build_call.pc = "built" =>
          /\ build_call.bitfields =
                <<BitfieldOf(JoinedBy(build_call.given.tile.variants[1].arguments))>>
          /\ DiagonalHasCardinals(build_call.bitfields[1])
    /\ \A k \in 1..Len(bitfields) :
          /\ DiagonalHasCardinals(bitfields[k].bitfield)
          /\ TilingBitfield(TokensOf(DirectionsOf(bitfields[k].bitfield)), 0)
                = bitfields[k].bitfield

\* The resolver has set a diagonal bit: up, left and up-left join.
C17_Witness ==
    /\ autotile_pc = "return"
    /\ \E k \in 1..Len(bitfields) : bitfields[k].bitfield = 64 + 32 + 4

(***************************************************************************)
(* Properties of the neighbour test, under SpecAdjacent.  The grid keeps   *)
(* in width and height the largest column and row index.                   *)
(***************************************************************************)
OutOfBounds(grid, pos) ==
    \/ pos.x < 0
    \/ pos.y < 0
    \/ pos.x > grid.width * TILE_SPACING
    \/ pos.y > grid.height * TILE_SPACING

\* C19: the neighbour test takes a position for out of bounds exactly when
\* x < 0, y < 0, x is past the largest column index or y past the largest
\* row index; there the result is tile_borders, and at every position inside
\* the grid, the last column and the last row too, it is whether the name
\* of the occupant joins, whatever tile_borders is.
C19_BoundsAreTheLargestIndices ==
    adjacent_call.pc = "return" =>
        LET pos == adjacent_call.pos
            result == adjacent_call.result
        IN  /\ OutOfBounds(scene.tiles, pos) =>
                  result.raised.kind = "None" /\ result.val = adjacent_call.tile_borders
            /\ (~OutOfBounds(scene.tiles, pos) /\ pos \in DictKeys(scene.tiles.tiles)) =>
                  /\ result.raised.kind = "None"
                  /\ result.val = Joins(scene.tiles, pos, adjacent_call.tile.name)

\* C20: on every populated grid, sparse ones too, the resolver ends without
\* raising: a position inside the grid that holds no tile does not join.
C20_ResolverNeverRaises ==
    (autotile_pc = "return" /\ scene.tiles.tiles # <<>>) => key_error.kind = "None"

(***************************************************************************)
(* Properties of the state the requests share, under SpecRender.           *)
(***************************************************************************)
\* C21: whatever the requests and their interleaving, an entry of the image
\* cache is never removed nor replaced and keeps the pixels of its file,
\* untouched by recolouring and compositing; a path that has an entry is
\* served from the cache, its file is opened once.
C21_ImageCacheIsAppendOnly ==
    [][/\ \A path \in DOMAIN image_cache :
             /\ path \in DOMAIN image_cache'
             /\ image_cache'[path] = image_cache[path]
             /\ opened'[path] = opened[path]
       /\ \A path \in DOMAIN image_cache' :
             image_cache'[path] = Image(path) /\ opened'[path] = 1]_vars

\* Both requests have had the sprite of the tile b from the cache, after
\* one opening of its file.
C21_Witness ==
    /\ \A r \in Requests : requests[r].pc = "done" /\ requests[r].raw_scene = "b:c/rosy"
    /\ SpritePath("vanilla", "b", 0, 1) \in DOMAIN image_cache
    /\ opened[SpritePath("vanilla", "b", 0, 1)] = 1

(***************************************************************************)
(* Properties of the yield points, under SpecScheduled.                    *)
(***************************************************************************)
\* The tiles of the request that have their sprite.
Sprited(r) ==
    IF requests[r].scene = None THEN 0
    ELSE Cardinality({k \in 1..Len(requests[r].scene.tiles.tiles) :
                         requests[r].scene.tiles.tiles[k].value.sprite # None})

TileCount(r) == IF requests[r].scene = None THEN 0 ELSE Len(requests[r].scene.tiles.tiles)

\* C22: between two yield points a request looks up the sprite of at most
\* one tile or composites at most one canvas; under the event loop a second
\* ready request has run by the time a first request of more than one tile
\* has finished sprite assignment, and every ready request gets to run.
C22_YieldsPerTileAndCanvas ==
    /\ [][\A r \in Requests :
             (Sprited(r)' - Sprited(r))
             + (Len(requests'[r].frames) - Len(requests[r].frames)) <= 1]_vars
    /\ [](\A r \in Requests : \A q \in Requests \ {r} :
             (TileCount(r) > 1 /\ requests[r].pc \in {"render", "done"})
                 => requests[q].pc # "parse")
    /\ \A r \in Requests : (requests[r].pc = "parse") ~> (requests[r].pc # "parse")

\* The first request is about to look up the sprite of its second tile and
\* the second request has run.
C22_Witness ==
    /\ requests[1].pc = "assign" /\ requests[1].i = 2 /\ TileCount(1) = 2
    /\ Sprited(1) = 1
    /\ requests[2].pc = "assign"
    /\ ready = <<1, 2>>

(***************************************************************************)
(* More properties of the variant registry, under SpecRegistry.            *)
(***************************************************************************)
\* The number of arguments each signature that is not variadic declares
\* (variants.py, setup), by alias.
SignatureCount ==
    [n \in {"right", "r", "up", "u", "left", "l", "down", "d", "sleep", "s",
            "color", "c", "displace", "disp", "meta", "m"} |->
        CASE n \in {"color", "c"} -> 1
          [] n \in {"displace", "disp"} -> 2
          [] n \in {"meta", "m"} -> 3
          [] OTHER -> 0]

\* C23: resolve_variant given more raw arguments than a signature that is
\* not variadic declares fails with an error of the user's input; the extra
\* arguments are not dropped in silence.
C23_ExtraArgumentsAreRefused ==
    (/\ Returned
     /\ Given.name \in DOMAIN SignatureCount
     /\ Len(Given.arguments) > SignatureCount[Given.name])
        => raised.kind \in UserErrorKinds

(***************************************************************************)
(* More properties of the state the requests share, under SpecRender.      *)
(***************************************************************************)
\* C24: the requests leave every entry of the sprite database as it was: a
\* TileData whose default colour is a pair of palette indices still has
\* that pair, and no third component, however many requests used the tile.
C24_RequestsLeaveTheDatabaseUnchanged ==
    \A name \in DOMAIN DatabaseSprites :
        /\ database.sprites[name] = DatabaseSprites[name]
        /\ database.sprites[name].color.b = None

(***************************************************************************)
(* More properties of the scene parse returns, under SpecParser.           *)
(***************************************************************************)
\* The TileData the sprite database holds for a name: <<name>>, or None.
DataOf(name) == IF name \in DOMAIN DatabaseSprites THEN <<name>> ELSE None

\* C25: every tile of the grid parse returns carries the TileData the sprite
\* database holds for the name the tile ends with, also a tile that took
\* its name from the step before it.
C25_TilesCarryTheDataOfTheirName ==
    (Parsed /\ scene.kind = "Scene") =>
        \A i \in 1..Len(scene.tiles.tiles) :
            scene.tiles.tiles[i].value.data = DataOf(scene.tiles.tiles[i].value.name)

(***************************************************************************)
(* Properties of the scene parse returns, under SpecDisplaced.             *)
(***************************************************************************)
\* The raw tiles parse does not skip (lines 59-66): the name is not '.', and
\* an empty name has a tile of the same cell before it that was not skipped.
RECURSIVE Kept(_, _)
Kept(raw_tiles, i) ==
    LET tile_name == Head(StrSplit(raw_tiles[i].raw_tile, ":"))
    IN  /\ tile_name # "."
        /\ tile_name = "" => (raw_tiles[i].t > 0 /\ Kept(raw_tiles, i - 1))

KeptCount(text) ==
    Cardinality({i \in 1..Len(RawTiles(text)) : Kept(RawTiles(text), i)})

\* C26: parse drops no tile: the grid it returns holds as many tiles as the
\* text has raw tiles that were not skipped, also when a `displace` variant
\* moves a tile onto the position of another tile.
C26_ParseDropsNoTile ==
    (Parsed /\ scene.kind = "Scene") =>
        Len(scene.tiles.tiles) = KeptCount(raw_scene)

(***************************************************************************)
(* A request that runs alone, and the requests that run together, under    *)
(* SpecRender.                                                             *)
(***************************************************************************)
\* What the first step of a request for text starts from when no other
\* request has run: the database as loaded, the asset store, an empty cache.
WorldAlone(text, store) ==
    [req |-> Request(text), image_cache |-> <<>>,
     database |-> [sprites |-> DatabaseSprites, palettes |-> [p \in {"default"} |-> "vanilla"]],
     cache_dirty |-> FALSE, opened |-> <<>>, files |-> store, ret |-> None,
     exc |-> NoError]

\* The step of the request from one await to the next, as TileParse,
\* AssignSprites, ApplySpriteVariants and Render take it.
StepAlone(w) ==
    CASE w.req.pc = "parse" ->
            TileParsed(w, Parse(w.database.sprites, w.req.raw_scene))
      [] w.req.pc = "assign" ->
            AssignTile(w, w.req.i,
                       CHOOSE choice \in Choices(w.req.scene.tiles.tiles[w.req.i].value,
                                                 w.database.sprites) : TRUE)
      [] w.req.pc = "variants" ->
            ApplyVariantFrame(w, w.req.i, w.req.scene.tiles.tiles[w.req.i].value,
                              w.req.scene.tiles.tiles[w.req.i].value.variants[w.req.vi])
      [] w.req.pc = "render" ->
            CompositeFrame(w, TilesByTime(w.req.scene.tiles, w.req.current_frame))

\* The request as it ends: its frames, or the exception it failed with.
RECURSIVE RunAlone(_)
Resumed(w) ==
    IF w.exc.kind # "None"
    THEN [w.req EXCEPT !.pc = "failed", !.raised = w.exc, !.reported = OnCommandError(w.exc)]
    ELSE IF w.req.pc = "done" THEN w.req
    ELSE RunAlone([w EXCEPT !.ret = None, !.exc = NoError])

RunAlone(w) == Resumed(StepAlone(w))

\* The outcome of a request: the canvases it composited and the exception
\* it ended with.
Outcome(req) == [frames |-> req.frames, raised |-> req.raised]

AssetStores == {StoredFiles \cup some : some \in SUBSET OptionalFiles}

OutcomeAlone ==
    [text \in RenderTexts |->
        [store \in AssetStores |-> Outcome(RunAlone(WorldAlone(text, store)))]]

\* C27: however the steps of two requests that do not use the tile '2'
\* interleave, a request that has ended has the frames, or the error, it
\* has when it runs alone from the same database, asset store and cache.
C27_OutcomeIsThatOfTheRequestAlone ==
    \A r \in Requests :
        requests[r].pc \in {"done", "failed"} =>
            Outcome(requests[r]) = OutcomeAlone[requests[r].raw_scene][files]

\* Both requests have ended with frames of the tile a, whose sprites were
\* opened once for the two of them and whose colour in the database the
\* requests have changed.
C27_Witness ==
    /\ requests[1].pc = "done" /\ requests[1].raw_scene = "a a"
    /\ requests[2].pc = "done" /\ requests[2].raw_scene = "b&a b"
    /\ Len(requests[1].frames) > 0 /\ Len(requests[2].frames) > 0
    /\ opened[SpritePath("vanilla", "a", 0, 1)] = 1
    /\ database.sprites["a"] # DatabaseSprites["a"]

====
